---- MODULE Spec2Model ----
(***************************************************************************)
(* Wedding planning engine (tools/wedding-domain/engine.ts and schemas.ts) *)
(* as a state machine: a raw couple context is handed to the engine's      *)
(* entry points, each call reads the wall clock where the code reads it    *)
(* and appends what it returned or threw to the call history.              *)
(*                                                                         *)
(* Representation.                                                         *)
(*  - A string is a sequence of tokens; a token is an indivisible piece of *)
(*    text.  includes(), trim() and toLowerCase() work on tokens, so every *)
(*    input string is tokenised such that each occurrence of a pattern the *)
(*    code searches for starts and ends at a token boundary.               *)
(*  - A percent is kept in tenths (257 is 25.7): the code rounds every     *)
(*    percent to one decimal.                                              *)
(*  - Money is whole dollars; an unrounded midpoint is kept as its double  *)
(*    (budgetMin + budgetMax), named ...X2.                                *)
(*  - A Date is [y, m, d] in UTC with m in 1..12; NullDate is null.        *)
(***************************************************************************)
EXTENDS Integers, Sequences, FiniteSets, TLC

VARIABLES
  input,        \* the raw couple context a caller holds
  now,          \* the calendar date new Date() gives
  calls,        \* the log of calls made and what each returned or threw
  venueRanges,  \* contents of the arrays VENUE_PROFILES[j].budgetShareRangePct
  sessions,     \* wedding-intake-store: Map id -> expiresAt
  nowMs,        \* Date.now()
  issuedAt,     \* history: the time each id was issued at
  lastCheck,    \* history: the last wedding-pitch-deck call and how far it got
  state         \* wedding-store: the in-memory ledger

engineVars == <<input, now, calls, venueRanges>>

registryVars == <<sessions, nowMs, issuedAt, lastCheck>>

vars == <<input, now, calls, venueRanges, sessions, nowMs, issuedAt, lastCheck, state>>

(***************************************************************************)
(* Strings                                                                 *)
(***************************************************************************)
NL == "\n"

IsSpace(tok) == tok \in {" ", NL}

\* toLowerCase on the tokens the inputs use
LowerTok(tok) ==
  CASE tok = "Roman" -> "roman"
    [] tok = "Modern" -> "modern"
    [] tok = "Outdoor" -> "outdoor"
    [] tok = "Destination" -> "destination"
    [] tok = "Constructor" -> "constructor"
    [] tok = "A@X" -> "a@x"
    [] OTHER -> tok

toLowerCase(s) == [i \in 1..Len(s) |-> LowerTok(s[i])]

RECURSIVE TrimStart(_)
TrimStart(s) ==
  IF s # <<>> /\ IsSpace(Head(s)) THEN TrimStart(Tail(s)) ELSE s

RECURSIVE TrimEnd(_)
TrimEnd(s) ==
  IF s # <<>> /\ IsSpace(s[Len(s)]) THEN TrimEnd(SubSeq(s, 1, Len(s) - 1)) ELSE s

trim(s) == TrimEnd(TrimStart(s))

\* String.prototype.includes
includes(s, sub) ==
  \E i \in 0..(Len(s) - Len(sub)) : SubSeq(s, i + 1, i + Len(sub)) = sub

\* String.prototype.length: characters, not tokens
RECURSIVE StrLength(_)
StrLength(s) == IF s = <<>> THEN 0 ELSE Len(Head(s)) + StrLength(Tail(s))

RECURSIVE Concat(_)
Concat(parts) == IF parts = <<>> THEN <<>> ELSE Head(parts) \o Concat(Tail(parts))

\* Array.prototype.join
RECURSIVE join(_, _)
join(items, sep) ==
  IF items = <<>> THEN <<>>
  ELSE IF Len(items) = 1 THEN Head(items)
  ELSE Head(items) \o sep \o join(Tail(items), sep)

\* Array.prototype.slice(0, n), includes
slice0(s, n) == SubSeq(s, 1, IF Len(s) < n THEN Len(s) ELSE n)

arrayIncludes(s, x) == \E i \in 1..Len(s) : s[i] = x

Range(s) == {s[i] : i \in 1..Len(s)}

RECURSIVE SumSeq(_)
SumSeq(s) == IF s = <<>> THEN 0 ELSE Head(s) + SumSeq(Tail(s))

\* Array.from(new Set(values)): first occurrences, in order
RECURSIVE uniqueList(_)
uniqueList(values) ==
  IF values = <<>> THEN <<>>
  ELSE LET init == uniqueList(SubSeq(values, 1, Len(values) - 1))
           last == values[Len(values)]
       IN IF arrayIncludes(init, last) THEN init ELSE Append(init, last)

(***************************************************************************)
(* Numbers                                                                 *)
(***************************************************************************)
Max(a, b) == IF a > b THEN a ELSE b
Min(a, b) == IF a < b THEN a ELSE b

clamp(value, min, max) == Min(max, Max(min, value))

\* Math.round(num / den) for num >= 0, den > 0: halves round up
RoundDiv(num, den) == (2 * num + den) \div (2 * den)

(***************************************************************************)
(* Dates                                                                   *)
(***************************************************************************)
NullDate == [y |-> 0, m |-> 0, d |-> 0]

IsLeap(y) == (y % 4 = 0 /\ y % 100 # 0) \/ y % 400 = 0

DaysInMonth(y, m) ==
  IF m \in {4, 6, 9, 11} THEN 30
  ELSE IF m = 2 THEN (IF IsLeap(y) THEN 29 ELSE 28)
  ELSE 31

\* The weddingDate field: undefined, a string the regex rejects ("text"), or
\* a string of the shape dddd-dd-dd with those digits
UndefinedDate == [kind |-> "undefined", y |-> 0, m |-> 0, d |-> 0]
TextDate == [kind |-> "text", y |-> 0, m |-> 0, d |-> 0]
IsoDate(y, m, d) == [kind |-> "iso", y |-> y, m |-> m, d |-> d]

\* new Date(`${date}T00:00:00Z`) on Node (V8): a month outside 1..12 or a day
\* outside 1..31 is NaN; a day past the month's end rolls into the next month
NewDateFromIso(wd) ==
  IF wd.kind = "iso" /\ wd.m \in 1..12 /\ wd.d \in 1..31
  THEN IF wd.d <= DaysInMonth(wd.y, wd.m)
       THEN [y |-> wd.y, m |-> wd.m, d |-> wd.d]
       ELSE [y |-> wd.y, m |-> wd.m + 1, d |-> wd.d - DaysInMonth(wd.y, wd.m)]
  ELSE NullDate

parseWeddingDate(wd) ==
  IF wd.kind = "undefined" THEN NullDate ELSE NewDateFromIso(wd)

\* now is the clock reading the default parameter `now = new Date()` takes
\* The day of the month is not looked at
toMonthDifferenceIgnoresDay(targetDate, clock) ==
  (targetDate.y - clock.y) * 12 + (targetDate.m - clock.m)

toMonthDifference(targetDate, clock) ==
  LET yearDelta == targetDate.y - clock.y
      monthDelta == targetDate.m - clock.m
      rawMonths == yearDelta * 12 + monthDelta
  IN IF targetDate.d < clock.d THEN rawMonths - 1 ELSE rawMonths

inferSeasonFromDate(date) ==
  LET month == date.m - 1
  IN IF month >= 2 /\ month <= 4 THEN "spring"
     ELSE IF month >= 5 /\ month <= 7 THEN "summer"
     ELSE IF month >= 8 /\ month <= 10 THEN "fall"
     ELSE "winter"

Pad3(n) ==
  IF n < 10 THEN "00" \o ToString(n)
  ELSE IF n < 100 THEN "0" \o ToString(n)
  ELSE ToString(n)

RECURSIVE GroupThousands(_)
GroupThousands(n) ==
  IF n < 1000 THEN ToString(n)
  ELSE GroupThousands(n \div 1000) \o "," \o Pad3(n % 1000)

formatCurrency(amount) == "$" \o GroupThousands(amount)

MonthShort ==
  <<"Jan", "Feb", "Mar", "Apr", "May", "Jun",
    "Jul", "Aug", "Sep", "Oct", "Nov", "Dec">>

formatMonthYear(date) == MonthShort[date.m] \o " " \o ToString(date.y)

\* Date.UTC(year, month, 1): a year from 0 to 99 stands for 1900 + year
DateUTCYear(year) == IF year \in 0..99 THEN 1900 + year ELSE year

\* new Date(Date.UTC(y, m, 1)), then setUTCMonth(getUTCMonth() - months)
subtractMonths(date, months) ==
  LET idx == DateUTCYear(date.y) * 12 + (date.m - 1) - months
  IN [y |-> idx \div 12, m |-> (idx % 12) + 1, d |-> 1]

(***************************************************************************)
(* schemas.ts: coupleContextInputSchema                                    *)
(***************************************************************************)
WeddingSeasons == {"spring", "summer", "fall", "winter"}
UndefinedSeason == "undefined"

WeddingPriorities == {"food", "party", "elegance", "intimacy", "photos"}

Issue(path, code) == [path |-> path, code |-> code]

RECURSIVE VibeWordIssues(_, _)
VibeWordIssues(vibeWords, i) ==
  IF i > Len(vibeWords) THEN <<>>
  ELSE (IF StrLength(vibeWords[i]) < 2
        THEN <<Issue(<<"vibeWords", ToString(i - 1)>>, "too_small")>>
        ELSE <<>>) \o VibeWordIssues(vibeWords, i + 1)

\* The z.object({...}) checks, in key order.  A value of the declared
\* TypeScript type only fails checks that leave the parse "dirty", so the
\* refinement below always runs.
ObjectIssues(value) ==
  Concat(<<
    IF StrLength(value.location) < 2
      THEN <<Issue(<<"location">>, "too_small")>> ELSE <<>>,
    IF value.weddingDate.kind = "text"
      THEN <<Issue(<<"weddingDate">>, "invalid_string")>> ELSE <<>>,
    IF value.guestCount < 10
      THEN <<Issue(<<"guestCount">>, "too_small")>> ELSE <<>>,
    IF value.guestCount > 400
      THEN <<Issue(<<"guestCount">>, "too_big")>> ELSE <<>>,
    IF value.budgetMin < 1000
      THEN <<Issue(<<"budgetMin">>, "too_small")>> ELSE <<>>,
    IF value.budgetMax < 1000
      THEN <<Issue(<<"budgetMax">>, "too_small")>> ELSE <<>>,
    IF Len(value.priorities) > 3
      THEN <<Issue(<<"priorities">>, "too_big")>> ELSE <<>>,
    IF Len(value.priorities) < 3
      THEN <<Issue(<<"priorities">>, "too_small")>> ELSE <<>>,
    IF Len(value.vibeWords) < 1
      THEN <<Issue(<<"vibeWords">>, "too_small")>> ELSE <<>>,
    IF Len(value.vibeWords) > 5
      THEN <<Issue(<<"vibeWords">>, "too_big")>> ELSE <<>>,
    VibeWordIssues(value.vibeWords, 1),
    IF StrLength(value.nonNegotiable) < 3
      THEN <<Issue(<<"nonNegotiable">>, "too_small")>> ELSE <<>>
  >>)

\* .superRefine((value, ctx) => ...)
superRefineWrongPath(value) ==
  Concat(<<
    IF value.weddingDate.kind = "undefined" /\ value.weddingSeason = UndefinedSeason
      THEN <<Issue(<<"weddingDate">>, "custom")>> ELSE <<>>,
    IF value.budgetMax < value.budgetMin
      THEN <<Issue(<<"budgetMin">>, "custom")>> ELSE <<>>,
    IF Cardinality(Range(value.priorities)) # Len(value.priorities)
      THEN <<Issue(<<"priorities">>, "custom")>> ELSE <<>>,
    IF value.weddingDate.kind # "undefined" /\ NewDateFromIso(value.weddingDate) = NullDate
      THEN <<Issue(<<"weddingDate">>, "custom")>> ELSE <<>>
  >>)

superRefine(value) ==
  Concat(<<
    IF value.weddingDate.kind = "undefined" /\ value.weddingSeason = UndefinedSeason
      THEN <<Issue(<<"weddingDate">>, "custom")>> ELSE <<>>,
    IF value.budgetMax < value.budgetMin
      THEN <<Issue(<<"budgetMax">>, "custom")>> ELSE <<>>,
    IF Cardinality(Range(value.priorities)) # Len(value.priorities)
      THEN <<Issue(<<"priorities">>, "custom")>> ELSE <<>>,
    IF value.weddingDate.kind # "undefined" /\ NewDateFromIso(value.weddingDate) = NullDate
      THEN <<Issue(<<"weddingDate">>, "custom")>> ELSE <<>>
  >>)

\* coupleContextInputSchema.parse(input): the issues of a ZodError, or none
SchemaIssues(value) == ObjectIssues(value) \o superRefine(value)

(***************************************************************************)
(* What a call hands back: a returned record or a thrown error             *)
(***************************************************************************)
Returned(value) == [status |-> "returned", value |-> value]
Threw(name, issues) == [status |-> "threw", error |-> [name |-> name, issues |-> issues]]

\* normalizeContext(input)
normalizeContext(in) ==
  IF SchemaIssues(in) = <<>> THEN Returned(in) ELSE Threw("ZodError", SchemaIssues(in))

(***************************************************************************)
(* engine.ts: reference tables                                             *)
(***************************************************************************)
NON_BUFFER_CATEGORIES ==
  <<"Venue", "Catering", "Photography", "Attire", "Decor", "Entertainment", "Planner">>

BASE_NON_BUFFER_WEIGHTS ==
  [Venue |-> 23, Catering |-> 25, Photography |-> 10, Attire |-> 8,
   Decor |-> 10, Entertainment |-> 8, Planner |-> 6]

NoModifiers ==
  [Venue |-> 0, Catering |-> 0, Photography |-> 0, Attire |-> 0,
   Decor |-> 0, Entertainment |-> 0, Planner |-> 0]

\* modifiers[category] ?? 0
PRIORITY_MODIFIERS ==
  [food |-> [NoModifiers EXCEPT !.Catering = 4, !.Decor = -1,
                                !.Entertainment = -1, !.Attire = -2],
   party |-> [NoModifiers EXCEPT !.Entertainment = 4, !.Venue = 1, !.Decor = -2,
                                 !.Attire = -1, !.Planner = -2],
   elegance |-> [NoModifiers EXCEPT !.Decor = 4, !.Attire = 2, !.Entertainment = -2,
                                    !.Planner = -2, !.Venue = -2],
   intimacy |-> [NoModifiers EXCEPT !.Venue = 2, !.Decor = 1, !.Entertainment = -1,
                                    !.Catering = -1, !.Planner = -1],
   photos |-> [NoModifiers EXCEPT !.Photography = 5, !.Decor = 1, !.Entertainment = -2,
                                  !.Venue = -2, !.Attire = -2]]

STRATEGIC_PRIORITY_LABELS ==
  [food |-> "Food and beverage experience",
   party |-> "Guest energy and celebration flow",
   elegance |-> "Visual elegance and styling",
   intimacy |-> "Intimate guest experience",
   photos |-> "Photography and storytelling"]

\* The vibe tags and library keys as token strings
T_romantic == <<"roman", "tic">>
T_elegance == <<"elegan", "ce">>
T_classic == <<"class", "ic">>
T_rustic == <<"rus", "tic">>
T_modern == <<"modern">>
T_minimalist == <<"minimal", "ist">>
T_dramatic == <<"drama", "tic">>
T_intimacy == <<"intima", "cy">>

VIBE_LIBRARY_KEYS == {T_modern, T_rustic, T_romantic, T_minimalist, T_dramatic}

VibeProfile(word) ==
  CASE word = T_modern ->
         [colorPalette |-> <<"warm white", "graphite", "champagne gold">>,
          textures |-> <<"polished stone", "brushed metal", "smooth linen">>,
          lighting |-> "architectural pin-spot lighting with soft perimeter wash",
          floral |-> "sculptural blooms with minimal greenery",
          dressCode |-> <<"Modern cocktail attire">>]
    [] word = T_rustic ->
         [colorPalette |-> <<"sage", "terracotta", "soft ivory">>,
          textures |-> <<"raw wood", "matte ceramics", "natural linen">>,
          lighting |-> "warm festoon lighting and layered candlelight",
          floral |-> "garden florals with textural greenery",
          dressCode |-> <<"Formal garden attire">>]
    [] word = T_romantic ->
         [colorPalette |-> <<"blush", "ivory", "dusty rose">>,
          textures |-> <<"silk", "velvet ribbon", "handmade paper">>,
          lighting |-> "candle-forward glow with soft uplighting",
          floral |-> "soft ivory florals with trailing accents",
          dressCode |-> <<"Romantic formal attire">>]
    [] word = T_minimalist ->
         [colorPalette |-> <<"bone", "taupe", "charcoal">>,
          textures |-> <<"smooth plaster", "fine cotton", "matte ceramics">>,
          lighting |-> "clean directional lighting with restrained contrast",
          floral |-> "single-varietal florals with structured greenery",
          dressCode |-> <<"Minimal formal attire">>]
    [] word = T_dramatic ->
         [colorPalette |-> <<"black", "oxblood", "antique gold">>,
          textures |-> <<"velvet", "smoked glass", "aged brass">>,
          lighting |-> "high-contrast pools of light with dark surround",
          floral |-> "moody florals with deep tonal foliage",
          dressCode |-> <<"Black-tie", " optional">>]

VENUE_PROFILES ==
  << [venueType |-> "Estate",
      vibes |-> <<T_romantic, T_elegance, T_classic, T_rustic>>,
      priorities |-> <<"elegance", "photos", "intimacy">>,
      budgetImpactTier |-> "$$$",
      budgetShareRangePct |-> <<45, 58>>,
      capacityRange |-> <<70, 220>>,
      reasons |-> <<"Built-in architecture reduces decor load while maintaining visual impact.",
                    "Excellent natural backdrops for portraits and ceremony moments.">>],
     [venueType |-> "Boutique hotel",
      vibes |-> <<T_modern, T_elegance, T_romantic, T_minimalist>>,
      priorities |-> <<"food", "party", "elegance">>,
      budgetImpactTier |-> "$$$",
      budgetShareRangePct |-> <<42, 55>>,
      capacityRange |-> <<60, 180>>,
      reasons |-> <<"Integrated catering and logistics simplify coordination.",
                    "Consistent service operations help preserve guest experience quality.">>],
     [venueType |-> "Industrial loft",
      vibes |-> <<T_modern, T_minimalist, T_dramatic>>,
      priorities |-> <<"party", "photos", "elegance">>,
      budgetImpactTier |-> "$$",
      budgetShareRangePct |-> <<38, 48>>,
      capacityRange |-> <<80, 260>>,
      reasons |-> <<"Open layout supports flexible dance floor and guest flow design.",
                    "Neutral shell allows strong creative direction without visual clutter.">>],
     [venueType |-> "Garden venue",
      vibes |-> <<T_romantic, T_rustic, T_intimacy, T_minimalist>>,
      priorities |-> <<"intimacy", "photos", "food">>,
      budgetImpactTier |-> "$$",
      budgetShareRangePct |-> <<40, 52>>,
      capacityRange |-> <<40, 160>>,
      reasons |-> <<"Outdoor atmosphere supports an intimate and naturally immersive mood.",
                    "Natural light improves daytime photography quality.">>],
     [venueType |-> "Historic villa",
      vibes |-> <<T_romantic, T_dramatic, T_elegance, T_classic>>,
      priorities |-> <<"elegance", "photos", "food">>,
      budgetImpactTier |-> "$$$",
      budgetShareRangePct |-> <<44, 57>>,
      capacityRange |-> <<50, 180>>,
      reasons |-> <<"Character-rich interiors elevate storytelling and guest perception.",
                    "Distinct ceremony and reception zones support cleaner timeline flow.">>],
     [venueType |-> "Private club",
      vibes |-> <<T_classic, T_modern, T_elegance, T_intimacy>>,
      priorities |-> <<"food", "intimacy", "party">>,
      budgetImpactTier |-> "$$",
      budgetShareRangePct |-> <<39, 50>>,
      capacityRange |-> <<40, 140>>,
      reasons |-> <<"Controlled guest count creates a high-touch hospitality experience.",
                    "Predictable operations reduce execution risk on event day.">>] >>

(***************************************************************************)
(* engine.ts: scoring helpers                                              *)
(***************************************************************************)
RECURSIVE NonEmptyWords(_)
NonEmptyWords(words) ==
  IF words = <<>> THEN <<>>
  ELSE (IF Len(Head(words)) > 0 THEN <<Head(words)>> ELSE <<>>) \o NonEmptyWords(Tail(words))

normalizeVibes(vibeWords) ==
  NonEmptyWords([i \in 1..Len(vibeWords) |-> toLowerCase(trim(vibeWords[i]))])

getBudgetTier(midpointX2, guestCount) ==
  \* perGuestMidpoint = (midpointX2 / 2) / guestCount
  IF midpointX2 < 250 * 2 * guestCount THEN "Essential"
  ELSE IF midpointX2 < 600 * 2 * guestCount THEN "Smart Luxury"
  ELSE IF midpointX2 < 1000 * 2 * guestCount THEN "Elevated"
  ELSE "Prestige"

getGuestLoadScore(guestCount) ==
  IF guestCount <= 50 THEN 10
  ELSE IF guestCount <= 100 THEN 22
  ELSE IF guestCount <= 150 THEN 32
  ELSE 42

getPriorityPressure(priorities) ==
  LET focusSet == {"food", "party", "photos"}
      overlap == Cardinality({i \in 1..Len(priorities) : priorities[i] \in focusSet})
  IN IF overlap >= 2 THEN 8 ELSE 4

highPressurePatterns ==
  { <<"destination">>, <<"outdoor">>, <<"specific", " ", "vendor">>,
    <<"custom", " ", "tradition">>, <<"religious", " ", "tradition">> }

getNonNegotiablePressure(nonNegotiable) ==
  LET normalized == toLowerCase(nonNegotiable)
  IN IF \E pattern \in highPressurePatterns : includes(normalized, pattern) THEN 10 ELSE 5

\* Scores up to 36 count as low
getComplexityLevelLowUpTo36(score) ==
  IF score <= 36 THEN "low"
  ELSE IF score <= 64 THEN "medium"
  ELSE "high"

getComplexityLevelStrictMedium(score) ==
  IF score <= 34 THEN "low"
  ELSE IF score < 64 THEN "medium"
  ELSE "high"

getComplexityLevel(score) ==
  IF score <= 34 THEN "low"
  ELSE IF score <= 64 THEN "medium"
  ELSE "high"

getVenueSpendInfluencePct(guestCount) ==
  IF guestCount <= 60 THEN 40
  ELSE IF guestCount <= 120 THEN 45
  ELSE IF guestCount <= 180 THEN 52
  ELSE 60

\* toMonthDifference(date) is called without `now`: it reads the clock
getTimelinePressure(date, clock) ==
  IF date = NullDate THEN 7
  ELSE IF toMonthDifference(date, clock) <= 10 THEN 12 ELSE 7

getSeasonPressure(season) ==
  IF season = "summer" \/ season = "fall" THEN 10 ELSE 6

\* The date is looked at first, the supplied season only without a date
getNormalizedSeasonDateFirst(context) ==
  LET parsedDate == parseWeddingDate(context.weddingDate)
  IN IF parsedDate # NullDate THEN inferSeasonFromDate(parsedDate)
     ELSE IF context.weddingSeason # UndefinedSeason THEN context.weddingSeason
     ELSE "spring"

getNormalizedSeason(context) ==
  IF context.weddingSeason # UndefinedSeason THEN context.weddingSeason
  ELSE LET parsedDate == parseWeddingDate(context.weddingDate)
       IN IF parsedDate = NullDate THEN "spring" ELSE inferSeasonFromDate(parsedDate)

getRiskSeverityWeight(severity) ==
  IF severity = "high" THEN 3
  ELSE IF severity = "medium" THEN 2
  ELSE 1

\* Array.prototype.sort((left, right) => right.key - left.key) on [key, item]
\* pairs: descending, and stable (equal keys keep their order)
InsertUnstable(sorted, pair) ==
  LET idx == Cardinality({i \in 1..Len(sorted) : sorted[i].key > pair.key})
  IN SubSeq(sorted, 1, idx) \o <<pair>> \o SubSeq(sorted, idx + 1, Len(sorted))

InsertStable(sorted, pair) ==
  LET idx == Cardinality({i \in 1..Len(sorted) : sorted[i].key >= pair.key})
  IN SubSeq(sorted, 1, idx) \o <<pair>> \o SubSeq(sorted, idx + 1, Len(sorted))

RECURSIVE sortDescending(_)
sortDescending(pairs) ==
  IF pairs = <<>> THEN <<>>
  ELSE InsertStable(sortDescending(SubSeq(pairs, 1, Len(pairs) - 1)), pairs[Len(pairs)])

Items(pairs) == [i \in 1..Len(pairs) |-> pairs[i].item]

(***************************************************************************)
(* engine.ts: buildWeddingSnapshot                                         *)
(***************************************************************************)
\* const midpointBudget = (context.budgetMin + context.budgetMax) / 2, doubled
SnapshotMidpointBudgetX2(context) == context.budgetMin + context.budgetMax

ComplexityScoreUnclamped(context, clock) ==
  getGuestLoadScore(context.guestCount)
    + getTimelinePressure(parseWeddingDate(context.weddingDate), clock)
    + getSeasonPressure(getNormalizedSeason(context))
    + getPriorityPressure(context.priorities)
    + getNonNegotiablePressure(context.nonNegotiable)

ComplexityScore(context, clock) ==
  clamp(ComplexityScoreUnclamped(context, clock), 0, 100)

RecommendedStartingPillarLooseGuestBound(context) ==
  IF /\ context.guestCount <= 61
     /\ SnapshotMidpointBudgetX2(context) >= 700 * 2 * context.guestCount
     /\ (arrayIncludes(context.priorities, "elegance")
           \/ arrayIncludes(context.priorities, "intimacy"))
  THEN "theme-first"
  ELSE "venue-first"

\* perGuestMidpoint >= 700 is midpointBudget / guestCount >= 700
RecommendedStartingPillar(context) ==
  IF /\ context.guestCount <= 60
     /\ SnapshotMidpointBudgetX2(context) >= 700 * 2 * context.guestCount
     /\ (arrayIncludes(context.priorities, "elegance")
           \/ arrayIncludes(context.priorities, "intimacy"))
  THEN "theme-first"
  ELSE "venue-first"

SnapshotOf(context, clock) ==
  LET midpointX2 == SnapshotMidpointBudgetX2(context)
      budgetTier == getBudgetTier(midpointX2, context.guestCount)
      complexityScore == ComplexityScore(context, clock)
      influencePct == getVenueSpendInfluencePct(context.guestCount)
      shown == slice0(context.priorities, 3)
  IN [budgetTierLabel |->
        budgetTier \o " $" \o ToString(RoundDiv(midpointX2, 2000)) \o "k - "
          \o ToString(context.guestCount) \o " guests",
      complexityScore |-> complexityScore,
      complexityLevel |-> getComplexityLevel(complexityScore),
      strategicPriorities |->
        [i \in 1..Len(shown) |-> STRATEGIC_PRIORITY_LABELS[shown[i]]],
      recommendedStartingPillar |-> RecommendedStartingPillar(context),
      plannerInsight |->
        "Given your guest count (" \o ToString(context.guestCount)
          \o ") and budget range " \o formatCurrency(context.budgetMin) \o "-"
          \o formatCurrency(context.budgetMax) \o ", venue selection will likely drive about "
          \o ToString(influencePct)
          \o "% of total spend and heavily shape theme decisions.",
      normalizedContext |-> context]

buildWeddingSnapshot(in, clock) ==
  LET parsed == normalizeContext(in)
  IN IF parsed.status = "threw" THEN parsed
     ELSE Returned(SnapshotOf(parsed.value, clock))

(***************************************************************************)
(* engine.ts: buildVenueStrategyBrief                                      *)
(***************************************************************************)
VibeHits(profile, normalizedVibes) ==
  LET hit(vibe) == \E i \in 1..Len(normalizedVibes) :
                     includes(normalizedVibes[i], vibe) \/ includes(vibe, normalizedVibes[i])
      idx == {i \in 1..Len(profile.vibes) : hit(profile.vibes[i])}
  IN idx

\* A guest count equal to the capacity minimum counts as below the range
scoreVenueFitMinimumExclusive(profile, context, normalizedVibes) ==
  LET vibeHits == Cardinality(VibeHits(profile, normalizedVibes))
      priorityHits == Cardinality({i \in 1..Len(profile.priorities) :
                                     arrayIncludes(context.priorities, profile.priorities[i])})
      capacityAdjustment ==
        IF context.guestCount <= profile.capacityRange[1] THEN -4
        ELSE IF context.guestCount > profile.capacityRange[2] THEN -6 ELSE 8
  IN clamp(52 + vibeHits * 9 + priorityHits * 10 + capacityAdjustment, 55, 98)

scoreVenueFit(profile, context, normalizedVibes) ==
  LET vibeHits == Cardinality(VibeHits(profile, normalizedVibes))
      priorityHits == Cardinality({i \in 1..Len(profile.priorities) :
                                     arrayIncludes(context.priorities, profile.priorities[i])})
      guestCount == context.guestCount
      minCapacity == profile.capacityRange[1]
      maxCapacity == profile.capacityRange[2]
      capacityAdjustment ==
        IF guestCount < minCapacity THEN -4
        ELSE IF guestCount > maxCapacity THEN -6 ELSE 8
  IN clamp(52 + vibeHits * 9 + priorityHits * 10 + capacityAdjustment, 55, 98)

RECURSIVE HitNames(_, _, _)
HitNames(profile, normalizedVibes, i) ==
  IF i > Len(profile.vibes) THEN <<>>
  ELSE (IF i \in VibeHits(profile, normalizedVibes) THEN <<profile.vibes[i]>> ELSE <<>>)
         \o HitNames(profile, normalizedVibes, i + 1)

Recommendation(profile, context, normalizedVibes) ==
  LET vibeHits == HitNames(profile, normalizedVibes, 1)
      reasons == [i \in 1..Len(profile.reasons) |-> <<profile.reasons[i]>>]
      vibeLine ==
        IF Len(vibeHits) > 0
        THEN <<"Matches your vibe direction: ">>
               \o join(slice0(vibeHits, 2), <<" and ">>) \o <<".">>
        ELSE <<"Provides a flexible canvas for your selected aesthetic direction.">>
      flowLine ==
        <<"Supports your " \o ToString(context.guestCount)
            \o "-guest layout with practical flow for ceremony and reception transitions.">>
  IN [venueType |-> profile.venueType,
      fitScore |-> scoreVenueFit(profile, context, normalizedVibes),
      whyItMatches |-> slice0(uniqueList(reasons \o <<vibeLine, flowLine>>), 3),
      budgetImpactTier |-> profile.budgetImpactTier,
      budgetShareRangePct |-> profile.budgetShareRangePct]

RankedVenues(context) ==
  LET normalizedVibes == normalizeVibes(context.vibeWords)
      mapped == [i \in 1..Len(VENUE_PROFILES) |->
                   LET rec == Recommendation(VENUE_PROFILES[i], context, normalizedVibes)
                   IN [key |-> rec.fitScore, item |-> rec]]
  IN slice0(Items(sortDescending(mapped)), 3)

\* A low complexity level gets the medium window
BookingWindowMonthsBeforeNoLow(complexityLevel) ==
  IF complexityLevel = "high" THEN <<12, 14>> ELSE <<10, 12>>

BookingWindowMonthsBefore(complexityLevel) ==
  IF complexityLevel = "high" THEN <<12, 14>>
  ELSE IF complexityLevel = "medium" THEN <<10, 12>>
  ELSE <<8, 10>>

VenueStrategyBriefOf(snapshot, clock) ==
  LET context == snapshot.normalizedContext
      bookingWindowMonthsBefore == BookingWindowMonthsBefore(snapshot.complexityLevel)
      weddingDate == parseWeddingDate(context.weddingDate)
      urgency ==
        IF weddingDate # NullDate
             /\ toMonthDifference(weddingDate, clock) < bookingWindowMonthsBefore[1]
        THEN "accelerated" ELSE "normal"
      influencePct == getVenueSpendInfluencePct(context.guestCount)
      rangeMin == clamp(influencePct - 5, 40, 55)
      rangeMax == clamp(influencePct + 5, 45, 60)
  IN [recommendations |-> RankedVenues(context),
      decisionChecklist |->
        <<"Capacity vs comfort", "Catering restrictions", "Weather contingency",
          "Vendor flexibility", "Hidden costs">>,
      venueTimeline |->
        [bookingWindowMonthsBefore |-> bookingWindowMonthsBefore,
         depositExpectationPct |-> <<20, 40>>,
         negotiationTips |->
           <<"Ask for weekday or shoulder-season leverage before committing to premium dates.",
             "Negotiate package inclusions (furniture, lighting, staffing) before rate reductions.",
             "Confirm service charges and overtime triggers in writing before deposit transfer.">>,
         urgency |-> urgency],
      keyInsight |->
        "Venue selection locks in date, vibe, layout, and lighting, and will likely control about "
          \o ToString(rangeMin) \o "-" \o ToString(rangeMax) \o "% "
          \o "of your total budget. It is the structural backbone of this plan."]

\* The override's complexityLevel is not read: the booking window is the medium one
buildVenueStrategyBriefOverrideLevelUnread(in, snapshotOverride, clock) ==
  LET snapshot == IF snapshotOverride # <<>>
                  THEN Returned([snapshotOverride[1] EXCEPT !.complexityLevel = "medium"])
                  ELSE buildWeddingSnapshot(in, clock)
  IN IF snapshot.status = "threw" THEN snapshot
     ELSE Returned(VenueStrategyBriefOf(snapshot.value, clock))

\* snapshotOverride is <<>> (undefined) or <<snapshot>>
buildVenueStrategyBrief(in, snapshotOverride, clock) ==
  LET snapshot == IF snapshotOverride # <<>> THEN Returned(snapshotOverride[1])
                  ELSE buildWeddingSnapshot(in, clock)
  IN IF snapshot.status = "threw" THEN snapshot
     ELSE Returned(VenueStrategyBriefOf(snapshot.value, clock))

(***************************************************************************)
(* engine.ts: buildBudgetPlanningBundle                                    *)
(***************************************************************************)
RECURSIVE SumWeights(_, _)
SumWeights(weights, i) ==
  IF i > Len(NON_BUFFER_CATEGORIES) THEN 0
  ELSE weights[NON_BUFFER_CATEGORIES[i]] + SumWeights(weights, i + 1)

\* A later category replaces an equal share: the last of tied shares wins
RECURSIVE ReduceLargestLastOfTied(_, _, _)
ReduceLargestLastOfTied(scaled, best, i) ==
  IF i > Len(NON_BUFFER_CATEGORIES) THEN best
  ELSE LET key == NON_BUFFER_CATEGORIES[i]
       IN ReduceLargestLastOfTied(scaled, IF scaled[key] >= scaled[best] THEN key ELSE best, i + 1)

\* NON_BUFFER_CATEGORIES.reduce((best, key) => scaled[key] > scaled[best] ? key : best)
RECURSIVE ReduceLargest(_, _, _)
ReduceLargest(scaled, best, i) ==
  IF i > Len(NON_BUFFER_CATEGORIES) THEN best
  ELSE LET key == NON_BUFFER_CATEGORIES[i]
       IN ReduceLargest(scaled, IF scaled[key] > scaled[best] THEN key ELSE best, i + 1)

\* The rounding residual is dropped instead of being given to the largest share
normalizePercentsNoResidual(weights, targetTotal) ==
  LET sum == SumWeights(weights, 1)
  IN [key \in DOMAIN weights |-> RoundDiv(weights[key] * targetTotal * 10, sum)]

\* Percents in tenths: Math.round(normalized * 10) / 10 is RoundDiv(...) tenths
normalizePercents(weights, targetTotal) ==
  LET sum == SumWeights(weights, 1)
      scaled == [key \in DOMAIN weights |-> RoundDiv(weights[key] * targetTotal * 10, sum)]
      current == SumWeights(scaled, 1)
      diff == targetTotal * 10 - current
      largestCategory == ReduceLargest(scaled, NON_BUFFER_CATEGORIES[1], 2)
  IN IF diff # 0
     THEN [scaled EXCEPT ![largestCategory] = scaled[largestCategory] + diff]
     ELSE scaled

\* The floor of 4 is left out
ApplyModifiersNoFloor(weights, modifiers) ==
  [category \in DOMAIN weights |-> weights[category] + modifiers[category]]

ApplyModifiers(weights, modifiers) ==
  [category \in DOMAIN weights |-> Max(4, weights[category] + modifiers[category])]

RECURSIVE AdjustedWeights(_, _)
AdjustedWeights(weights, priorities) ==
  IF priorities = <<>> THEN weights
  ELSE AdjustedWeights(ApplyModifiers(weights, PRIORITY_MODIFIERS[Head(priorities)]),
                       Tail(priorities))

\* const midpointBudget = Math.round((context.budgetMin + context.budgetMax) / 2)
BudgetMidpointBudget(context) == RoundDiv(context.budgetMin + context.budgetMax, 2)

\* The Buffer amount is rounded from its 10 percent like the spend amounts
AllocationsBufferFromPercent(context) ==
  LET midpointBudget == BudgetMidpointBudget(context)
      adjustedWeights == AdjustedWeights(BASE_NON_BUFFER_WEIGHTS, context.priorities)
      normalizedWeights == normalizePercents(adjustedWeights, 90)
      spend == [i \in 1..Len(NON_BUFFER_CATEGORIES) |->
                  LET category == NON_BUFFER_CATEGORIES[i]
                  IN [category |-> category,
                      percent |-> normalizedWeights[category],
                      amountUsd |-> RoundDiv(midpointBudget * normalizedWeights[category], 1000)]]
  IN Append(spend, [category |-> "Buffer", percent |-> 100,
                    amountUsd |-> RoundDiv(midpointBudget * 100, 1000)])

Allocations(context) ==
  LET midpointBudget == BudgetMidpointBudget(context)
      adjustedWeights == AdjustedWeights(BASE_NON_BUFFER_WEIGHTS, context.priorities)
      normalizedWeights == normalizePercents(adjustedWeights, 90)
      spend == [i \in 1..Len(NON_BUFFER_CATEGORIES) |->
                  LET category == NON_BUFFER_CATEGORIES[i]
                  IN [category |-> category,
                      percent |-> normalizedWeights[category],
                      amountUsd |-> RoundDiv(midpointBudget * normalizedWeights[category], 1000)]]
      nonBufferAmount == SumSeq([i \in 1..Len(spend) |-> spend[i].amountUsd])
      bufferAmount == midpointBudget - nonBufferAmount
  IN Append(spend, [category |-> "Buffer", percent |-> 100, amountUsd |-> bufferAmount])

getSecondaryTradeoff(priority) ==
  CASE priority = "food" ->
         "Elevating catering by 5% usually requires pulling from entertainment pacing or reducing premium bar duration."
    [] priority = "party" ->
         "Adding premium entertainment and production often reduces flexibility in decor scale unless total budget increases."
    [] priority = "elegance" ->
         "A high-design decor concept typically compresses funds available for live entertainment upgrades."
    [] priority = "intimacy" ->
         "Investing in guest comfort upgrades can reduce headroom for large-format production elements."
    [] priority = "photos" ->
         "Moving photography from mid-tier to premium often requires trimming venue embellishments and custom signage."
    [] OTHER ->
         "When one pillar scales up, protect the 10% buffer first to avoid downstream decision stress."

getDateWindowLabel(context, startMonthsOut, endMonthsOut) ==
  LET weddingDate == parseWeddingDate(context.weddingDate)
      season == IF context.weddingSeason # UndefinedSeason
                THEN context.weddingSeason ELSE "spring"
  IN IF weddingDate # NullDate
     THEN formatMonthYear(subtractMonths(weddingDate, startMonthsOut)) \o " - "
            \o formatMonthYear(subtractMonths(weddingDate, endMonthsOut))
     ELSE IF endMonthsOut = 0
     THEN ToString(startMonthsOut) \o " months out to wedding (" \o season \o ")"
     ELSE ToString(startMonthsOut) \o "-" \o ToString(endMonthsOut)
            \o " months out (" \o season \o ")"

DynamicTaskTimeline(context) ==
  [phases |->
    << [phase |-> "12-9 months",
        window |-> getDateWindowLabel(context, 12, 9),
        tasks |-> <<"Venue booking", "Planner selection", "Photographer booking">>],
       [phase |-> "9-6 months",
        window |-> getDateWindowLabel(context, 9, 6),
        tasks |-> <<"Catering decisions", "Design concept", "Attire planning">>],
       [phase |-> "6-3 months",
        window |-> getDateWindowLabel(context, 6, 3),
        tasks |-> <<"Invitations", "Guest logistics", "Vendor timeline alignment">>],
       [phase |-> "3 months to wedding",
        window |-> getDateWindowLabel(context, 3, 0),
        tasks |-> <<"Vendor confirmations", "Final fittings", "Run-of-show finalization">>] >>]

\* budgetSpreadPct < 0.18, budgetSpreadPct = (max - min) / Math.max(max, 1)
NarrowBudgetBand(context) ==
  (context.budgetMax - context.budgetMin) * 100 < 18 * Max(context.budgetMax, 1)

\* Out of season the severity is medium only below 7 months
PeakAvailabilitySeverityBelowSeven(context, clock) ==
  LET season == getNormalizedSeason(context)
      weddingDate == parseWeddingDate(context.weddingDate)
      monthsToWedding == IF weddingDate # NullDate
                         THEN toMonthDifference(weddingDate, clock) ELSE 12
  IN IF season = "summer" \/ season = "fall"
     THEN (IF monthsToWedding < 10 THEN "high" ELSE "medium")
     ELSE (IF monthsToWedding < 7 THEN "medium" ELSE "low")

PeakAvailabilitySeverity(context, clock) ==
  LET season == getNormalizedSeason(context)
      weddingDate == parseWeddingDate(context.weddingDate)
      monthsToWedding == IF weddingDate # NullDate
                         THEN toMonthDifference(weddingDate, clock) ELSE 12
  IN IF season = "summer" \/ season = "fall"
     THEN (IF monthsToWedding < 10 THEN "high" ELSE "medium")
     ELSE (IF monthsToWedding < 8 THEN "medium" ELSE "low")

BudgetCreepSeverity(snapshot) ==
  IF snapshot.complexityLevel = "high" \/ NarrowBudgetBand(snapshot.normalizedContext)
  THEN "high"
  ELSE IF snapshot.complexityLevel = "medium" THEN "medium" ELSE "low"

GuestLogisticsSeverity(context) ==
  IF context.guestCount > 150 THEN "high"
  ELSE IF context.guestCount > 90 THEN "medium" ELSE "low"

RiskCatalog(snapshot, clock) ==
  LET context == snapshot.normalizedContext
      season == getNormalizedSeason(context)
  IN << [risk |-> "Peak season availability",
         severity |-> PeakAvailabilitySeverity(context, clock),
         reason |->
           IF season = "summer" \/ season = "fall"
           THEN "High-demand months compress venue and vendor options early."
           ELSE "Vendor calendars still tighten quickly when date options are narrow.",
         mitigation |->
           "Lock venue shortlist quickly and hold primary/backup dates before design commitments."],
        [risk |-> "Budget creep",
         severity |-> BudgetCreepSeverity(snapshot),
         reason |->
           IF NarrowBudgetBand(context)
           THEN "A narrow budget band leaves less room for late-stage upgrades."
           ELSE "Priority-driven upgrades can compound if contingency is not protected.",
         mitigation |->
           "Freeze category caps after venue contract and preserve the 10% buffer as non-negotiable."],
        [risk |-> "Guest logistics",
         severity |-> GuestLogisticsSeverity(context),
         reason |->
           IF context.guestCount > 120
           THEN "Larger guest movement and accommodation coordination adds execution complexity."
           ELSE "Travel, timing, and communication details can still create friction for key guests.",
         mitigation |->
           "Publish transport/accommodation guidance early and assign ownership for RSVP follow-ups."] >>

TopRisks(snapshot, clock) ==
  LET catalog == RiskCatalog(snapshot, clock)
      keyed == [i \in 1..Len(catalog) |->
                  [key |-> getRiskSeverityWeight(catalog[i].severity), item |-> catalog[i]]]
  IN slice0(Items(sortDescending(keyed)), 3)

BudgetPlanningBundleOf(snapshot, clock) ==
  LET context == snapshot.normalizedContext
  IN [budgetArchitecture |->
        [allocations |-> Allocations(context),
         tradeoffInsights |->
           <<"If you increase decor by $3k, photography quality tier is likely to shift from premium to mid-tier unless overall budget expands.",
             getSecondaryTradeoff(IF Len(context.priorities) >= 1
                                  THEN context.priorities[1] ELSE "food")>>,
         bufferPercent |-> 100],
      dynamicTaskTimeline |-> DynamicTaskTimeline(context),
      riskRadar |-> [topRisks |-> TopRisks(snapshot, clock)]]

buildBudgetPlanningBundle(in, snapshotOverride, clock) ==
  LET snapshot == IF snapshotOverride # <<>> THEN Returned(snapshotOverride[1])
                  ELSE buildWeddingSnapshot(in, clock)
  IN IF snapshot.status = "threw" THEN snapshot
     ELSE Returned(BudgetPlanningBundleOf(snapshot.value, clock))

(***************************************************************************)
(* engine.ts: buildDesignDirection                                         *)
(***************************************************************************)
\* JavaScript's undefined where a string was expected
Undefined == "undefined"

\* VIBE_LIBRARY is a plain object: a key it does not own is looked up on
\* Object.prototype.  Of the inherited names only these two are lower-case,
\* so only they survive trim().toLowerCase(): VIBE_LIBRARY["constructor"] is
\* the function Object, VIBE_LIBRARY["__proto__"] is Object.prototype, both
\* truthy and without any profile field.
ObjectPrototypeKeys == {<<"constructor">>, <<"__proto__">>}

\* VIBE_LIBRARY[word], filtered by Boolean(profile)
RECURSIVE MatchedProfiles(_)
MatchedProfiles(words) ==
  IF words = <<>> THEN <<>>
  ELSE (IF Head(words) \in VIBE_LIBRARY_KEYS THEN <<[own |-> TRUE, key |-> Head(words)]>>
        ELSE IF Head(words) \in ObjectPrototypeKeys
        THEN <<[own |-> FALSE, key |-> Head(words)]>>
        ELSE <<>>) \o MatchedProfiles(Tail(words))

\* matchedProfiles.flatMap((profile) => profile.colorPalette): a callback
\* result of undefined is kept as one element
RECURSIVE FlatMapColorPalette(_)
FlatMapColorPalette(matched) ==
  IF matched = <<>> THEN <<>>
  ELSE (IF Head(matched).own THEN VibeProfile(Head(matched).key).colorPalette
        ELSE <<Undefined>>) \o FlatMapColorPalette(Tail(matched))

RECURSIVE FlatMapTextures(_)
FlatMapTextures(matched) ==
  IF matched = <<>> THEN <<>>
  ELSE (IF Head(matched).own THEN VibeProfile(Head(matched).key).textures
        ELSE <<Undefined>>) \o FlatMapTextures(Tail(matched))

\* matchedProfiles.find((profile) => profile.dressCode.includes("Black-tie")):
\* the index found, 0 for undefined, -1 when reading .includes of an
\* undefined dressCode throws a TypeError
RECURSIVE FindBlackTie(_, _)
FindBlackTie(matched, i) ==
  IF i > Len(matched) THEN 0
  ELSE IF ~matched[i].own THEN -1
  ELSE IF includes(VibeProfile(matched[i].key).dressCode, <<"Black-tie">>) THEN i
  ELSE FindBlackTie(matched, i + 1)

getDefaultDesignDirection ==
  [colorPalette |-> <<"ivory", "sand", "warm taupe">>,
   textures |-> <<"linen", "stone", "matte ceramic">>,
   lightingStyle |-> "warm layered candlelight with soft ambient wash",
   floralDirection |-> "ivory florals with structured greenery",
   dressCodeSuggestion |-> <<"Formal attire">>,
   narrativeLine |->
     "Soft ivory florals with structured greenery over warm stone textures create a calm, elegant atmosphere that feels timeless in photographs."]

DesignDirectionOf(context) ==
  LET normalizedVibes == normalizeVibes(context.vibeWords)
      matchedProfiles == MatchedProfiles(normalizedVibes)
      colorPalette == slice0(uniqueList(FlatMapColorPalette(matchedProfiles)), 4)
      textures == slice0(uniqueList(FlatMapTextures(matchedProfiles)), 4)
      first == VibeProfile(matchedProfiles[1].key)
      found == FindBlackTie(matchedProfiles, 1)
  IN IF Len(matchedProfiles) = 0 THEN Returned(getDefaultDesignDirection)
     ELSE IF found = -1 THEN Threw("TypeError", <<>>)
     ELSE Returned(
       [colorPalette |-> colorPalette,
        textures |-> textures,
        lightingStyle |-> first.lighting,
        floralDirection |-> first.floral,
        dressCodeSuggestion |->
          IF found > 0 THEN VibeProfile(matchedProfiles[found].key).dressCode
          ELSE first.dressCode,
        narrativeLine |->
          colorPalette[1] \o " and " \o colorPalette[2] \o " tones layered over "
            \o textures[1] \o " textures, paired with " \o first.lighting
            \o ", create a tangible atmosphere "
            \o "that feels cohesive from ceremony through reception."])

buildDesignDirection(in) ==
  LET parsed == normalizeContext(in)
  IN IF parsed.status = "threw" THEN parsed ELSE DesignDirectionOf(parsed.value)

(***************************************************************************)
(* engine.ts: buildPlannerPitch, buildWeddingPlanningBundle                *)
(***************************************************************************)
\* `${item.percent}` of a one-decimal number
FormatPercent(tenths) ==
  IF tenths % 10 = 0 THEN ToString(tenths \div 10)
  ELSE ToString(tenths \div 10) \o "." \o ToString(tenths % 10)

\* topVenue.toLowerCase()
LowerVenueType(venueType) ==
  CASE venueType = "Estate" -> "estate"
    [] venueType = "Boutique hotel" -> "boutique hotel"
    [] venueType = "Industrial loft" -> "industrial loft"
    [] venueType = "Garden venue" -> "garden venue"
    [] venueType = "Historic villa" -> "historic villa"
    [] venueType = "Private club" -> "private club"
    [] OTHER -> venueType

RECURSIVE WithoutBuffer(_)
WithoutBuffer(allocations) ==
  IF allocations = <<>> THEN <<>>
  ELSE (IF Head(allocations).category # "Buffer" THEN <<Head(allocations)>> ELSE <<>>)
         \o WithoutBuffer(Tail(allocations))

\* The first three spend lines as declared, without sorting by percent
TopAllocationsUnsorted(allocations) ==
  LET top == slice0(WithoutBuffer(allocations), 3)
  IN join([i \in 1..Len(top) |->
             <<top[i].category \o " (" \o FormatPercent(top[i].percent) \o "%)">>],
          <<", ">>)

TopAllocations(allocations) ==
  LET spend == WithoutBuffer(allocations)
      keyed == [i \in 1..Len(spend) |-> [key |-> spend[i].percent, item |-> spend[i]]]
      top == slice0(Items(sortDescending(keyed)), 3)
  IN join([i \in 1..Len(top) |->
             <<top[i].category \o " (" \o FormatPercent(top[i].percent) \o "%)">>],
          <<", ">>)

SectionHeaders ==
  <<"## Opening Vision", "## Why We Start with the Venue", "## Your Budget Architecture",
    "## Design Direction", "## Planning Roadmap", "## Close with Confidence">>

PlannerPitchOf(snapshot, venueStrategy, budgetPlanning, designDirection) ==
  LET context == snapshot.normalizedContext
      topAllocations == TopAllocations(budgetPlanning.budgetArchitecture.allocations)
      topVenue == IF Len(venueStrategy.recommendations) >= 1
                  THEN venueStrategy.recommendations[1].venueType ELSE "venue"
      vibeWords == join(slice0(context.vibeWords, 3), <<", ">>)
      openingVision ==
        <<"Based on your plan for ">> \o context.location
          \o <<", with " \o ToString(context.guestCount) \o " guests and a ">>
          \o vibeWords
          \o <<" direction, I recommend anchoring decisions around a venue that naturally supports your guest experience and design goals.">>
      whyVenueFirst ==
        <<"Starting with the venue sets scale, confirms the date, and frames layout and lighting constraints. For your profile, this decision is expected to influence "
            \o ToString(getVenueSpendInfluencePct(context.guestCount))
            \o "% of total spend and determines how flexible downstream design choices remain.">>
      budgetArchitectureSummary ==
        <<"Your budget architecture prioritizes ">> \o topAllocations
          \o <<", while preserving a protected 10% buffer to control risk and avoid late-stage churn.">>
      designDirectionSummary ==
        <<designDirection.narrativeLine \o " Floral direction: "
            \o designDirection.floralDirection \o ". Dress code recommendation: ">>
          \o designDirection.dressCodeSuggestion \o <<".">>
      planningRoadmap ==
        << <<"Shortlist and tour 5 " \o LowerVenueType(topVenue) \o " options within 3 weeks.">>,
           <<"Lock photographer within 4 weeks of venue booking.">>,
           <<"Finalize aesthetic moodboard before catering tastings.">> >>
      confidenceClose ==
        <<"The key to reducing stress is sequencing decisions correctly. We anchor the structure first (venue), align budget second, and let design flourish within that framework.">>
  IN [openingVision |-> openingVision,
      whyVenueFirst |-> whyVenueFirst,
      budgetArchitectureSummary |-> budgetArchitectureSummary,
      designDirectionSummary |-> designDirectionSummary,
      planningRoadmap |-> planningRoadmap,
      confidenceClose |-> confidenceClose,
      markdown |->
        join(<< <<SectionHeaders[1]>>, openingVision, <<>>,
                <<SectionHeaders[2]>>, whyVenueFirst, <<>>,
                <<SectionHeaders[3]>>, budgetArchitectureSummary, <<>>,
                <<SectionHeaders[4]>>, designDirectionSummary, <<>>,
                <<SectionHeaders[5]>>,
                <<"1. ">> \o planningRoadmap[1],
                <<"2. ">> \o planningRoadmap[2],
                <<"3. ">> \o planningRoadmap[3],
                <<>>,
                <<SectionHeaders[6]>>, confidenceClose >>,
             <<NL>>)]

\* Every builder it calls reads the clock for itself; the call is synchronous,
\* so one reading per buildPlannerPitch call stands for them
buildPlannerPitch(in, clock) ==
  LET snapshot == buildWeddingSnapshot(in, clock)
      designDirection == buildDesignDirection(snapshot.value.normalizedContext)
  IN IF snapshot.status = "threw" THEN snapshot
     ELSE IF designDirection.status = "threw" THEN designDirection
     ELSE Returned(PlannerPitchOf(
            snapshot.value,
            VenueStrategyBriefOf(snapshot.value, clock),
            BudgetPlanningBundleOf(snapshot.value, clock),
            designDirection.value))

buildWeddingPlanningBundle(in, clock, pitchClock) ==
  LET snapshot == buildWeddingSnapshot(in, clock)
      designDirection == buildDesignDirection(snapshot.value.normalizedContext)
      plannerPitch == buildPlannerPitch(snapshot.value.normalizedContext, pitchClock)
  IN IF snapshot.status = "threw" THEN snapshot
     ELSE IF designDirection.status = "threw" THEN designDirection
     ELSE IF plannerPitch.status = "threw" THEN plannerPitch
     ELSE Returned(
       [snapshot |-> snapshot.value,
        venueStrategyBrief |-> VenueStrategyBriefOf(snapshot.value, clock),
        budgetPlanning |-> BudgetPlanningBundleOf(snapshot.value, clock),
        designDirection |-> designDirection.value,
        plannerPitch |-> plannerPitch.value])

(***************************************************************************)
(* wedding-intake-store.ts: the in-memory intake session registry          *)
(***************************************************************************)
TTL_MS == 86400000

NoSessions == [id \in {} |-> 0]

\* An id is kept through the very millisecond it expires at
cleanupExpiredKeepsAtExpiry(map, clock) ==
  [id \in {k \in DOMAIN map : ~(map[k] < clock)} |-> map[id]]

\* for (const [id, expiresAt] of sessions.entries()) if (expiresAt <= now) delete
cleanupExpired(map, clock) ==
  [id \in {k \in DOMAIN map : ~(map[k] <= clock)} |-> map[id]]

\* sessions.set(id, Date.now() + TTL_MS) after the cleanup
issueWeddingIntakeSessionId(map, id, clock) ==
  LET kept == cleanupExpired(map, clock)
  IN [k \in DOMAIN kept \cup {id} |-> IF k = id THEN clock + TTL_MS ELSE kept[k]]

\* TRUE when assertValidWeddingIntakeSessionId throws: sessions.get(id) is
\* undefined, or a falsy expiresAt
assertThrows(map, id, clock) ==
  LET kept == cleanupExpired(map, clock)
  IN id \notin DOMAIN kept \/ kept[id] = 0

NoCheck == [id |-> 0, at |-> 0, outcome |-> "none", apiKeyRead |-> FALSE]

RegistryInit ==
  /\ sessions = NoSessions
  /\ nowMs = 0
  /\ issuedAt = NoSessions
  /\ lastCheck = NoCheck

(***************************************************************************)
(* wedding-store.ts: the in-memory wedding ledger                          *)
(***************************************************************************)
\* A field that is null is the empty sequence, a set one a sequence of one
INITIAL_PENDING_TASKS ==
  << [id |-> "task_1", title |-> "create guestlist", due_date |-> "", status |-> "Pending"],
     [id |-> "task_2", title |-> "find venue", due_date |-> "", status |-> "Pending"],
     [id |-> "task_3", title |-> "create schedule", due_date |-> "", status |-> "Pending"],
     [id |-> "task_4", title |-> "make invitations", due_date |-> "", status |-> "Pending"] >>

LedgerInit ==
  [eventDetails |-> <<>>,
   guests |-> <<>>,
   tasks |-> INITIAL_PENDING_TASKS,
   schedule |-> <<>>,
   latestInvitation |-> <<>>,
   nextGuestId |-> 1,
   nextTaskId |-> Len(INITIAL_PENDING_TASKS) + 1,
   nextScheduleId |-> 1]

\* Each operation: the ledger after it and what it returned or threw
Outcome(st, out) == [state |-> st, out |-> out]

setEventDetails(st, in) ==
  Outcome([st EXCEPT !.eventDetails = <<in>>], Returned(in))

\* The duplicate check compares the contacts as written, without lower-casing
addGuestCaseSensitive(st, in) ==
  LET normalizedInputContact == trim(in.contact)
      duplicate == \E k \in 1..Len(st.guests) :
                     trim(st.guests[k].contact) = normalizedInputContact
      guest == [id |-> "guest_" \o ToString(st.nextGuestId), name |-> in.name,
                contact |-> in.contact, rsvp_status |-> "Pending"]
  IN IF duplicate THEN Outcome(st, Threw("Error", <<>>))
     ELSE Outcome([st EXCEPT !.nextGuestId = @ + 1, !.guests = Append(@, guest)],
                  Returned(guest))

\* The id counter is advanced before the duplicate check
addGuestCountsRejected(st, in) ==
  LET normalizedInputContact == toLowerCase(trim(in.contact))
      duplicate == \E k \in 1..Len(st.guests) :
                     toLowerCase(trim(st.guests[k].contact)) = normalizedInputContact
      guest == [id |-> "guest_" \o ToString(st.nextGuestId), name |-> in.name,
                contact |-> in.contact, rsvp_status |-> "Pending"]
  IN IF duplicate
     THEN Outcome([st EXCEPT !.nextGuestId = @ + 1], Threw("Error", <<>>))
     ELSE Outcome([st EXCEPT !.nextGuestId = @ + 1, !.guests = Append(@, guest)],
                  Returned(guest))

addGuest(st, in) ==
  LET normalizedInputContact == toLowerCase(trim(in.contact))
      duplicate == \E k \in 1..Len(st.guests) :
                     toLowerCase(trim(st.guests[k].contact)) = normalizedInputContact
      guest == [id |-> "guest_" \o ToString(st.nextGuestId), name |-> in.name,
                contact |-> in.contact, rsvp_status |-> "Pending"]
  IN IF duplicate THEN Outcome(st, Threw("Error", <<>>))
     ELSE Outcome([st EXCEPT !.nextGuestId = @ + 1, !.guests = Append(@, guest)],
                  Returned(guest))

\* state.guests.find((entry) => entry.id === guestId): the first such entry
updateGuestStatus(st, guestId, rsvpStatus) ==
  LET found == {k \in 1..Len(st.guests) : st.guests[k].id = guestId}
  IN IF found = {} THEN Outcome(st, Threw("Error", <<>>))
     ELSE LET k == CHOOSE k \in found : \A other \in found : k <= other
              after == [st EXCEPT !.guests[k].rsvp_status = rsvpStatus]
          IN Outcome(after, Returned(after.guests[k]))

addTask(st, in) ==
  LET task == [id |-> "task_" \o ToString(st.nextTaskId), title |-> in.title,
               due_date |-> in.due_date, status |-> "Pending"]
  IN Outcome([st EXCEPT !.nextTaskId = @ + 1, !.tasks = Append(@, task)], Returned(task))

addScheduleItem(st, in) ==
  LET item == [id |-> "schedule_" \o ToString(st.nextScheduleId), time |-> in.time,
               description |-> in.description]
  IN Outcome([st EXCEPT !.nextScheduleId = @ + 1, !.schedule = Append(@, item)],
             Returned(item))

setLatestInvitation(st, theme, text) ==
  LET draft == [theme |-> theme, text |-> text]
  IN Outcome([st EXCEPT !.latestInvitation = <<draft>>], Returned(draft))

getPendingTasks(st) ==
  SelectSeq(st.tasks, LAMBDA task : task.status = "Pending")

getWeddingDashboardData(st) ==
  [eventDetails |-> st.eventDetails,
   guests |-> st.guests,
   tasks |-> st.tasks,
   pendingTasks |-> getPendingTasks(st),
   schedule |-> st.schedule,
   latestInvitation |-> st.latestInvitation]

\* addGuest tool: addGuestInput trims name and contact and wants both
\* non-empty; the handler then calls addGuest and reads the dashboard
addGuestTool(st, in) ==
  LET parsed == [name |-> trim(in.name), contact |-> trim(in.contact)]
      issues == (IF Len(parsed.name) < 1 THEN <<Issue(<<"name">>, "too_small")>> ELSE <<>>)
                  \o (IF Len(parsed.contact) < 1
                      THEN <<Issue(<<"contact">>, "too_small")>> ELSE <<>>)
      added == addGuest(st, parsed)
  IN IF issues # <<>> THEN Outcome(st, Threw("ZodError", issues))
     ELSE IF added.out.status = "threw" THEN added
     ELSE Outcome(added.state,
                  Returned([view |-> "guests", guest_id |-> added.out.value.id,
                            data |-> getWeddingDashboardData(added.state)]))

(***************************************************************************)
(* The state machine: a caller holds one raw input and calls the engine's  *)
(* entry points; the wall clock moves between calls.                       *)
(***************************************************************************)
MaxCalls == 2

Date(y, m, d) == [y |-> y, m |-> m, d |-> d]

\* Clock readings: 11 months, then 9 months, then 5 months before 2027-07-10
Clocks == {Date(2026, 8, 10), Date(2026, 9, 11), Date(2027, 1, 15)}

Before(a, b) ==
  \/ a.y < b.y
  \/ a.y = b.y /\ a.m < b.m
  \/ a.y = b.y /\ a.m = b.m /\ a.d < b.d

\* baseContext of the engine's test file
BaseContext ==
  [location |-> <<"Lisbon">>,
   weddingDate |-> IsoDate(2027, 7, 10),
   weddingSeason |-> UndefinedSeason,
   guestCount |-> 120,
   budgetMin |-> 35000,
   budgetMax |-> 45000,
   priorities |-> <<"food", "elegance", "photos">>,
   vibeWords |-> <<T_modern, T_romantic, T_minimalist>>,
   nonNegotiable |-> <<"Excellent", " ", "food", " ", "experience">>]

\* All 60 ordered choices of 3 distinct priorities
PriorityTriples ==
  {p \in WeddingPriorities \X WeddingPriorities \X WeddingPriorities :
     p[1] # p[2] /\ p[1] # p[3] /\ p[2] # p[3]}

DeclaredRanges == [j \in 1..Len(VENUE_PROFILES) |-> VENUE_PROFILES[j].budgetShareRangePct]

InitAt(inputs, clocks) ==
  /\ input \in inputs
  /\ now \in clocks
  /\ calls = <<>>
  /\ venueRanges = DeclaredRanges
  /\ RegistryInit
  /\ state = LedgerInit

InitWith(inputs) == InitAt(inputs, Clocks)

Tick ==
  /\ \E later \in Clocks : Before(now, later) /\ now' = later
  /\ UNCHANGED <<input, calls, venueRanges, registryVars, state>>

Record(op, out) ==
  /\ Len(calls) < MaxCalls
  /\ calls' = Append(calls, [op |-> op, at |-> now, out |-> out])
  /\ UNCHANGED <<input, now, venueRanges, registryVars, state>>

CallNormalizeContext == Record("normalizeContext", normalizeContext(input))

CallBuildWeddingSnapshot ==
  Record("buildWeddingSnapshot", buildWeddingSnapshot(input, now))

VenueIndex(venueType) ==
  CHOOSE j \in 1..Len(VENUE_PROFILES) : VENUE_PROFILES[j].venueType = venueType

\* budgetShareRangePct: profile.budgetShareRangePct hands out the table's own
\* array, so a recommendation shows what that array holds now
WithSharedRanges(brief, ranges) ==
  [brief EXCEPT !.recommendations =
     [r \in 1..Len(brief.recommendations) |->
        [brief.recommendations[r] EXCEPT
           !.budgetShareRangePct = ranges[VenueIndex(brief.recommendations[r].venueType)]]]]

ReadVenueRanges(out, ranges) ==
  IF out.status = "returned" THEN Returned(WithSharedRanges(out.value, ranges)) ELSE out

CallBuildVenueStrategyBrief ==
  Record("buildVenueStrategyBrief",
         ReadVenueRanges(buildVenueStrategyBrief(input, <<>>, now), venueRanges))

CallBuildBudgetPlanningBundle ==
  Record("buildBudgetPlanningBundle", buildBudgetPlanningBundle(input, <<>>, now))

CallBuildDesignDirection ==
  Record("buildDesignDirection", buildDesignDirection(input))

CallBuildPlannerPitch ==
  Record("buildPlannerPitch", buildPlannerPitch(input, now))

\* The pitch is built last; the clock may have moved on by then
CallBuildWeddingPlanningBundle ==
  \E pitchClock \in Clocks :
    /\ pitchClock = now \/ Before(now, pitchClock)
    /\ LET out == buildWeddingPlanningBundle(input, now, pitchClock)
       IN Record("buildWeddingPlanningBundle",
                 IF out.status = "returned"
                 THEN Returned([out.value EXCEPT !.venueStrategyBrief =
                                  WithSharedRanges(@, venueRanges)])
                 ELSE out)

CallsOf(op) == {i \in 1..Len(calls) : calls[i].op = op}

(***************************************************************************)
(* Budget architect: every ordering of the priorities, budgets with a      *)
(* wide band, an odd sum and a narrow band, small to large guest lists     *)
(***************************************************************************)
WhenOptions ==
  { <<IsoDate(2027, 7, 10), UndefinedSeason>>,
    <<IsoDate(2027, 12, 5), UndefinedSeason>>,
    <<UndefinedDate, "spring">>,
    <<UndefinedDate, "fall">>,
    <<IsoDate(2027, 7, 10), "winter">> }

BudgetInputs ==
  {[BaseContext EXCEPT !.priorities = p, !.budgetMin = b[1], !.budgetMax = b[2],
                       !.guestCount = g, !.weddingDate = w[1], !.weddingSeason = w[2]] :
     p \in PriorityTriples,
     b \in {<<35000, 45000>>, <<35000, 45001>>, <<40000, 42000>>},
     g \in {50, 120, 200},
     w \in WhenOptions}

InitBudget == InitWith(BudgetInputs)

NextBudget == CallBuildBudgetPlanningBundle

SpecBudget == InitBudget /\ [][NextBudget]_vars

Percents(allocations) == [i \in 1..Len(allocations) |-> allocations[i].percent]
Categories(allocations) == [i \in 1..Len(allocations) |-> allocations[i].category]

\* C1: for every valid couple context buildBudgetPlanningBundle returns
\* exactly 8 allocations, the 7 spend categories in catalog order and Buffer
\* last, whose percents (in tenths) sum to exactly 100.0, with the Buffer
\* percent exactly 10.0 and bufferPercent 10.0
C1_AllocationsSumTo100 ==
  \A i \in CallsOf("buildBudgetPlanningBundle") :
    SchemaIssues(input) = <<>> =>
      /\ calls[i].out.status = "returned"
      /\ LET architecture == calls[i].out.value.budgetArchitecture
             allocations == architecture.allocations
         IN /\ Len(allocations) = 8
            /\ Categories(allocations) = NON_BUFFER_CATEGORIES \o <<"Buffer">>
            /\ SumSeq(Percents(allocations)) = 1000
            /\ allocations[8].percent = 100
            /\ architecture.bufferPercent = 100

\* A bundle was returned for priorities whose independently rounded shares
\* sum to 90.1, so the residual had to be taken off the largest share
C1_Witness ==
  /\ input.priorities = <<"food", "party", "photos">>
  /\ \E i \in CallsOf("buildBudgetPlanningBundle") :
       /\ calls[i].out.status = "returned"
       /\ calls[i].out.value.budgetArchitecture.allocations[2].percent = 286

RiskCatalogIndex(risk) ==
  CASE risk = "Peak season availability" -> 1
    [] risk = "Budget creep" -> 2
    [] risk = "Guest logistics" -> 3
    [] OTHER -> 0

SeverityWeight(severity) ==
  CASE severity = "high" -> 3 [] severity = "medium" -> 2 [] severity = "low" -> 1

\* C3: for every valid input riskRadar.topRisks has exactly 3 entries, each
\* of the three named risks once, in non-increasing severity weight, entries
\* of equal severity in catalog order
C3_TopRisksSorted ==
  \A i \in CallsOf("buildBudgetPlanningBundle") :
    SchemaIssues(input) = <<>> =>
      /\ calls[i].out.status = "returned"
      /\ LET topRisks == calls[i].out.value.riskRadar.topRisks
         IN /\ Len(topRisks) = 3
            /\ {RiskCatalogIndex(topRisks[k].risk) : k \in 1..3} = {1, 2, 3}
            /\ \A a, b \in 1..3 :
                 a < b =>
                   \/ SeverityWeight(topRisks[a].severity) > SeverityWeight(topRisks[b].severity)
                   \/ /\ topRisks[a].severity = topRisks[b].severity
                      /\ RiskCatalogIndex(topRisks[a].risk) < RiskCatalogIndex(topRisks[b].risk)

\* The sort moved the first catalog entry to the end, behind two tied risks
C3_Witness ==
  \E i \in CallsOf("buildBudgetPlanningBundle") :
    /\ calls[i].out.status = "returned"
    /\ LET topRisks == calls[i].out.value.riskRadar.topRisks
       IN /\ topRisks[1].risk = "Budget creep" /\ topRisks[1].severity = "high"
          /\ topRisks[2].risk = "Guest logistics" /\ topRisks[2].severity = "high"
          /\ topRisks[3].risk = "Peak season availability"

(***************************************************************************)
(* Snapshot builder: guest counts and budgets on both sides of every       *)
(* threshold, dated and season-only weddings, plain and high-friction      *)
(* non-negotiables                                                         *)
(***************************************************************************)
SnapshotInputs ==
  {[BaseContext EXCEPT !.guestCount = g, !.budgetMin = b[1], !.budgetMax = b[2],
                       !.priorities = p, !.weddingDate = w[1], !.weddingSeason = w[2],
                       !.nonNegotiable = n] :
     g \in {10, 50, 51, 60, 61, 100, 101, 150, 151, 400},
     b \in {<<6999, 7000>>, <<7000, 7000>>, <<41999, 42000>>, <<42000, 42000>>,
            <<35000, 45000>>, <<50000, 70000>>, <<200000, 400000>>},
     p \in {<<"food", "elegance", "photos">>, <<"intimacy", "elegance", "photos">>,
            <<"food", "party", "photos">>, <<"party", "food", "intimacy">>,
            <<"elegance", "party", "intimacy">>},
     w \in WhenOptions,
     n \in {BaseContext.nonNegotiable,
            <<"Outdoor", " ", "ceremony">>,
            <<"A", " ", "specific", " ", "vendor">>}}

InitSnapshot == InitWith(SnapshotInputs)

NextSnapshot == CallBuildWeddingSnapshot

SpecSnapshot == InitSnapshot /\ [][NextSnapshot]_vars

\* C4: recommendedStartingPillar is theme-first if and only if guestCount <= 60
\* and ((budgetMin + budgetMax) / 2) / guestCount >= 700 and priorities holds
\* elegance or intimacy; every other valid input yields venue-first
C4_StartingPillar ==
  \A i \in CallsOf("buildWeddingSnapshot") :
    SchemaIssues(input) = <<>> =>
      /\ calls[i].out.status = "returned"
      /\ LET pillar == calls[i].out.value.recommendedStartingPillar
             themeFirst ==
               /\ input.guestCount <= 60
               /\ input.budgetMin + input.budgetMax >= 1400 * input.guestCount
               /\ {"elegance", "intimacy"} \cap Range(input.priorities) # {}
         IN /\ pillar \in {"theme-first", "venue-first"}
            /\ pillar = "theme-first" <=> themeFirst

\* theme-first was returned exactly on the boundary: 60 guests at 700 a head
C4_Witness ==
  /\ input.guestCount = 60
  /\ input.budgetMin + input.budgetMax = 84000
  /\ \E i \in CallsOf("buildWeddingSnapshot") :
       /\ calls[i].out.status = "returned"
       /\ calls[i].out.value.recommendedStartingPillar = "theme-first"

\* C5: for every valid input and every clock value complexityScore is an
\* integer in [0,100] and complexityLevel is low for a score <= 34, medium
\* for 35..64 and high above 64
C5_ComplexityLevel ==
  \A i \in CallsOf("buildWeddingSnapshot") :
    SchemaIssues(input) = <<>> =>
      /\ calls[i].out.status = "returned"
      /\ LET score == calls[i].out.value.complexityScore
             level == calls[i].out.value.complexityLevel
         IN /\ score \in 0..100
            /\ score <= 34 => level = "low"
            /\ (score >= 35 /\ score <= 64) => level = "medium"
            /\ score > 64 => level = "high"

\* A snapshot scored exactly 64, the last medium score
C5_Witness ==
  \E i \in CallsOf("buildWeddingSnapshot") :
    /\ calls[i].out.status = "returned"
    /\ calls[i].out.value.complexityScore = 64
    /\ calls[i].out.value.complexityLevel = "medium"

(***************************************************************************)
(* Venue strategist: vibe words that equal a tag, need trimming and        *)
(* lower-casing, are part of a tag, contain a tag, or match nothing; every *)
(* ordering of the priorities; guest counts around the capacity ranges     *)
(***************************************************************************)
VibeLists ==
  { BaseContext.vibeWords,
    << <<" ", "Roman", "tic">> >>,
    << <<"tic">> >>,
    << <<"modern", " ", "roman", "tic">> >>,
    << <<"boho">> >>,
    <<T_elegance, T_classic, T_romantic, T_dramatic, T_modern>>,
    <<T_rustic, T_intimacy>>,
    << <<" ", " ">>, T_rustic >>,
    << <<"constructor">>, T_minimalist >> }

VenueInputs ==
  {[BaseContext EXCEPT !.vibeWords = v, !.priorities = p, !.guestCount = g] :
     v \in VibeLists,
     p \in PriorityTriples,
     g \in {10, 39, 40, 60, 120, 180, 181, 261, 400}}

InitVenue == InitWith(VenueInputs)

NextVenue == CallBuildVenueStrategyBrief

SpecVenue == InitVenue /\ [][NextVenue]_vars

FitScores ==
  LET normalizedVibes == normalizeVibes(input.vibeWords)
  IN [j \in 1..Len(VENUE_PROFILES) |->
        scoreVenueFit(VENUE_PROFILES[j], input, normalizedVibes)]

\* The place of catalog entry j in the ranking: 1 + the number of entries
\* with a higher score, or with an equal score and declared earlier
PlaceIn(scores, j) ==
  1 + Cardinality({k \in DOMAIN scores :
                     \/ scores[k] > scores[j]
                     \/ scores[k] = scores[j] /\ k < j})

\* C2: for every valid input buildVenueStrategyBrief returns exactly 3
\* recommendations and a 5-item checklist; the recommendations are the three
\* best-scoring catalog entries in non-increasing fitScore order, an entry
\* declared earlier going first (and being the one kept at the cut-off)
\* whenever two entries score the same
C2_TopThreeVenues ==
  \A i \in CallsOf("buildVenueStrategyBrief") :
    SchemaIssues(input) = <<>> =>
      /\ calls[i].out.status = "returned"
      /\ LET recommendations == calls[i].out.value.recommendations
             scores == FitScores
             places == [j \in DOMAIN scores |-> PlaceIn(scores, j)]
         IN /\ Len(recommendations) = 3
            /\ Len(calls[i].out.value.decisionChecklist) = 5
            /\ \A k \in 1..2 :
                 recommendations[k].fitScore >= recommendations[k + 1].fitScore
            /\ \A j \in DOMAIN scores :
                 places[j] <= 3 =>
                   /\ recommendations[places[j]].venueType = VENUE_PROFILES[j].venueType
                   /\ recommendations[places[j]].fitScore = scores[j]

\* Two entries tie at the capped score 98 across the cut-off: the earlier
\* one is third, the later one is left out
C2_Witness ==
  /\ calls # <<>>
  /\ LET scores == FitScores
     IN \E a, b \in DOMAIN scores :
          /\ a < b
          /\ scores[a] = 98 /\ scores[b] = 98
          /\ PlaceIn(scores, a) = 3
  /\ \E i \in CallsOf("buildVenueStrategyBrief") :
       /\ calls[i].out.status = "returned"
       /\ Len(calls[i].out.value.recommendations) = 3

(***************************************************************************)
(* Input normalizer: inputs of the declared type with the budget bounds    *)
(* reversed, date and season missing, a malformed or impossible date,      *)
(* repeated or missing priorities, no vibe words, too few guests; every    *)
(* entry point is called on them                                           *)
(***************************************************************************)
ValidateInputs ==
  {[BaseContext EXCEPT !.budgetMin = b[1], !.budgetMax = b[2],
                       !.weddingDate = w[1], !.weddingSeason = w[2],
                       !.priorities = p, !.vibeWords = v, !.guestCount = g] :
     b \in {<<35000, 45000>>, <<45000, 35000>>, <<1000, 500>>, <<500, 45000>>},
     w \in {<<UndefinedDate, UndefinedSeason>>,
            <<IsoDate(2027, 7, 10), UndefinedSeason>>,
            <<UndefinedDate, "fall">>,
            <<TextDate, UndefinedSeason>>,
            <<IsoDate(2027, 13, 1), UndefinedSeason>>,
            <<IsoDate(2027, 2, 30), UndefinedSeason>>},
     p \in {BaseContext.priorities, <<"food", "food", "photos">>, <<"food", "photos">>},
     v \in {BaseContext.vibeWords, <<>>},
     g \in {9, 120}}

InitValidate == InitAt(ValidateInputs, {Date(2026, 8, 10)})

NextValidate ==
  \/ CallNormalizeContext
  \/ CallBuildWeddingSnapshot
  \/ CallBuildVenueStrategyBrief
  \/ CallBuildBudgetPlanningBundle
  \/ CallBuildDesignDirection
  \/ CallBuildPlannerPitch
  \/ CallBuildWeddingPlanningBundle

SpecValidate == InitValidate /\ [][NextValidate]_vars

ThrewValidationErrorAt(out, field) ==
  /\ out.status = "threw"
  /\ out.error.name = "ZodError"
  /\ \E k \in 1..Len(out.error.issues) : out.error.issues[k].path = <<field>>

EngineInputs ==
  {[BaseContext EXCEPT !.vibeWords = v, !.location = l,
                       !.budgetMin = b[1], !.budgetMax = b[2],
                       !.weddingDate = w[1], !.weddingSeason = w[2]] :
     v \in {BaseContext.vibeWords,
            << <<"boho">> >>,
            << <<"constructor">> >>,
            <<T_dramatic, <<"__proto__">> >>},
     l \in {BaseContext.location,
            <<"Paris", NL, "## Close with Confidence">>},
     b \in {<<35000, 45000>>, <<35000, 45001>>, <<45000, 35000>>},
     w \in {<<IsoDate(2027, 7, 10), UndefinedSeason>>, <<UndefinedDate, "fall">>}}

Init == InitWith(EngineInputs)

Next ==
  \/ Tick
  \/ CallNormalizeContext
  \/ CallBuildWeddingSnapshot
  \/ CallBuildVenueStrategyBrief
  \/ CallBuildBudgetPlanningBundle
  \/ CallBuildDesignDirection
  \/ CallBuildPlannerPitch
  \/ CallBuildWeddingPlanningBundle

Spec == Init /\ [][Next]_vars

Occurrences(text, tok) == {k \in 1..Len(text) : text[k] = tok}

\* text holds tok once, then a line break, then the whole of field
FollowedBy(text, tok, field) ==
  \E k \in Occurrences(text, tok) :
    /\ k + 1 + Len(field) <= Len(text)
    /\ text[k + 1] = NL
    /\ SubSeq(text, k + 2, k + 1 + Len(field)) = field

\* C6: for every valid input PlannerPitch.markdown holds the six headers,
\* each exactly once and in the fixed order, each followed by its narrative
\* field; planningRoadmap has exactly 3 entries, rendered as items 1, 2, 3
C6_PitchMarkdown ==
  \A i \in CallsOf("buildPlannerPitch") :
    SchemaIssues(input) = <<>> =>
      /\ calls[i].out.status = "returned"
      /\ LET pitch == calls[i].out.value
             markdown == pitch.markdown
             roadmap == pitch.planningRoadmap
         IN /\ \A h \in 1..6 : Cardinality(Occurrences(markdown, SectionHeaders[h])) = 1
            /\ \A h \in 1..5 :
                 \A a \in Occurrences(markdown, SectionHeaders[h]) :
                   \A b \in Occurrences(markdown, SectionHeaders[h + 1]) : a < b
            /\ FollowedBy(markdown, SectionHeaders[1], pitch.openingVision)
            /\ FollowedBy(markdown, SectionHeaders[2], pitch.whyVenueFirst)
            /\ FollowedBy(markdown, SectionHeaders[3], pitch.budgetArchitectureSummary)
            /\ FollowedBy(markdown, SectionHeaders[4], pitch.designDirectionSummary)
            /\ Len(roadmap) = 3
            /\ FollowedBy(markdown, SectionHeaders[5],
                 <<"1. ">> \o roadmap[1] \o <<NL, "2. ">> \o roadmap[2]
                   \o <<NL, "3. ">> \o roadmap[3])
            /\ FollowedBy(markdown, SectionHeaders[6], pitch.confidenceClose)

EngineComponents ==
  {"buildWeddingSnapshot", "buildVenueStrategyBrief", "buildBudgetPlanningBundle",
   "buildDesignDirection", "buildPlannerPitch"}

\* C7: an engine component called twice with the identical context yields
\* identical output, at whatever wall-clock times the two calls happen
C7_SameOutputAtAnyTime ==
  \A i, j \in 1..Len(calls) :
    (calls[i].op \in EngineComponents /\ calls[i].op = calls[j].op) =>
      calls[i].out = calls[j].out

\* C9: every entry point either raises the normalizer's validation error
\* and returns nothing, or returns a record; on an input the normalizer
\* accepts no entry point raises any error
C9_OnlyValidationErrors ==
  \A i \in 1..Len(calls) :
    IF SchemaIssues(input) = <<>>
    THEN calls[i].out.status = "returned"
    ELSE calls[i].out.status = "threw" /\ calls[i].out.error.name = "ZodError"

AmountsUsd(allocations) == [k \in 1..Len(allocations) |-> allocations[k].amountUsd]

\* C10: the midpoint (budgetMin + budgetMax) / 2 behind the snapshot's
\* perGuestMidpoint and budgetTierLabel is the midpoint the budget bundle
\* spreads over its amountUsd values, for every valid budget pair
C10_SameMidpoint ==
  \A i \in CallsOf("buildWeddingSnapshot") :
    \A j \in CallsOf("buildBudgetPlanningBundle") :
      (calls[i].out.status = "returned" /\ calls[j].out.status = "returned") =>
        LET context == calls[i].out.value.normalizedContext
            allocations == calls[j].out.value.budgetArchitecture.allocations
        IN /\ 2 * BudgetMidpointBudget(context) = SnapshotMidpointBudgetX2(context)
           /\ 2 * SumSeq(AmountsUsd(allocations)) = SnapshotMidpointBudgetX2(context)

(***************************************************************************)
(* Dollar amounts of the budget architecture                               *)
(***************************************************************************)
\* C11: for every valid input each of the 7 spend allocations has
\* amountUsd = round(midpointBudget * percent / 100), and the Buffer
\* allocation has amountUsd = round(midpointBudget * 0.10)
C11_AllocationAmounts ==
  \A i \in CallsOf("buildBudgetPlanningBundle") :
    calls[i].out.status = "returned" =>
      LET midpointBudget == BudgetMidpointBudget(input)
          allocations == calls[i].out.value.budgetArchitecture.allocations
      IN /\ \A k \in 1..7 :
              allocations[k].amountUsd =
                RoundDiv(midpointBudget * allocations[k].percent, 1000)
         /\ allocations[8].amountUsd = RoundDiv(midpointBudget * 10, 100)

(***************************************************************************)
(* Tool handlers: the snapshot is built first and handed to the builder    *)
(***************************************************************************)
RecordWithSnapshot(op, snapshotAt, out) ==
  /\ Len(calls) < MaxCalls
  /\ calls' = Append(calls, [op |-> op, at |-> now, snapshotAt |-> snapshotAt, out |-> out])
  /\ UNCHANGED <<input, now, venueRanges, registryVars, state>>

\* wedding-venue-strategy handler: const snapshot = buildWeddingSnapshot(input);
\* buildVenueStrategyBrief(snapshot.normalizedContext, snapshot).  The two
\* calls read the clock one after the other.
CallVenueStrategyHandler ==
  \E snapshotAt \in Clocks :
    /\ snapshotAt = now \/ Before(snapshotAt, now)
    /\ LET snapshot == buildWeddingSnapshot(input, snapshotAt)
       IN RecordWithSnapshot("wedding-venue-strategy", snapshotAt,
            IF snapshot.status = "threw" THEN snapshot
            ELSE ReadVenueRanges(
                   buildVenueStrategyBrief(snapshot.value.normalizedContext,
                                           <<snapshot.value>>, now),
                   venueRanges))

\* wedding-budget-architecture handler
CallBudgetArchitectureHandler ==
  \E snapshotAt \in Clocks :
    /\ snapshotAt = now \/ Before(snapshotAt, now)
    /\ LET snapshot == buildWeddingSnapshot(input, snapshotAt)
       IN RecordWithSnapshot("wedding-budget-architecture", snapshotAt,
            IF snapshot.status = "threw" THEN snapshot
            ELSE buildBudgetPlanningBundle(snapshot.value.normalizedContext,
                                           <<snapshot.value>>, now))

HandlerInputs ==
  {[BaseContext EXCEPT !.priorities = p, !.budgetMin = b[1], !.budgetMax = b[2],
                       !.guestCount = g, !.weddingDate = w[1], !.weddingSeason = w[2]] :
     p \in {BaseContext.priorities, <<"intimacy", "elegance", "party">>},
     b \in {<<35000, 45000>>, <<45000, 35000>>},
     g \in {40, 200},
     w \in WhenOptions \cup {<<IsoDate(2026, 8, 20), UndefinedSeason>>,
                           <<IsoDate(2027, 4, 20), UndefinedSeason>>}}

InitHandlers == InitWith(HandlerInputs)

NextHandlers ==
  \/ Tick
  \/ CallBuildVenueStrategyBrief
  \/ CallBuildBudgetPlanningBundle
  \/ CallVenueStrategyHandler
  \/ CallBudgetArchitectureHandler

SpecHandlers == InitHandlers /\ [][NextHandlers]_vars

Direct(op) ==
  CASE op = "wedding-venue-strategy" -> "buildVenueStrategyBrief"
    [] op = "wedding-budget-architecture" -> "buildBudgetPlanningBundle"

\* C12: for every valid input and a fixed clock, handing the pre-computed
\* snapshot to buildVenueStrategyBrief or buildBudgetPlanningBundle gives the
\* result of the call without it
C12_SnapshotArgumentChangesNothing ==
  \A j \in CallsOf("wedding-venue-strategy") \cup CallsOf("wedding-budget-architecture") :
    \A i \in CallsOf(Direct(calls[j].op)) :
      (SchemaIssues(input) = <<>>
         /\ calls[j].snapshotAt = calls[j].at /\ calls[i].at = calls[j].at) =>
        /\ calls[j].out.status = "returned"
        /\ calls[j].out = calls[i].out

\* Both ways of calling the venue builder returned at one clock reading, for
\* a wedding whose complexity level is not the medium one
C12_Witness ==
  \E j \in CallsOf("wedding-venue-strategy") :
    \E i \in CallsOf("buildVenueStrategyBrief") :
      /\ calls[j].snapshotAt = calls[j].at /\ calls[i].at = calls[j].at
      /\ calls[j].out.status = "returned"
      /\ calls[j].out.value.venueTimeline.bookingWindowMonthsBefore # <<10, 12>>

(***************************************************************************)
(* Ownership of returned records: a caller writes into a record it was     *)
(* given                                                                   *)
(***************************************************************************)
\* brief.recommendations[r].budgetShareRangePct[k] = v, on a brief returned
\* earlier.  The array written is the one the profile table holds.
MaxWrites == 1

WrittenCells ==
  {c \in (1..Len(VENUE_PROFILES)) \X (1..2) : venueRanges[c[1]][c[2]] # DeclaredRanges[c[1]][c[2]]}

CallerWritesReturnedRange ==
  \E i \in CallsOf("buildVenueStrategyBrief") : \E r \in 1..3, k \in 1..2, v \in {0, 100} :
    /\ Cardinality(WrittenCells) < MaxWrites
    /\ calls[i].out.status = "returned"
    /\ LET j == VenueIndex(calls[i].out.value.recommendations[r].venueType)
       IN venueRanges' = [venueRanges EXCEPT ![j][k] = v]
    /\ UNCHANGED <<input, now, calls, registryVars, state>>

OwnershipInputs ==
  {[BaseContext EXCEPT !.vibeWords = v, !.guestCount = g] :
     v \in {BaseContext.vibeWords, << <<"boho">> >>, <<T_rustic, T_dramatic>>},
     g \in {40, 120, 300}}

InitOwnership == InitWith(OwnershipInputs)

NextOwnership ==
  \/ Tick
  \/ CallBuildVenueStrategyBrief
  \/ CallerWritesReturnedRange

SpecOwnership == InitOwnership /\ [][NextOwnership]_vars

\* C13: every record a builder returns is fresh: nothing reachable from it
\* is shared with the reference tables or with another call's record, so a
\* caller that writes into a returned record cannot change what a later call
\* with the same context and clock returns
C13_ReturnedRecordsAreFresh ==
  \A i, j \in CallsOf("buildVenueStrategyBrief") :
    calls[i].at = calls[j].at => calls[j].out = calls[i].out

(***************************************************************************)
(* The intake flow: wedding-planner issues a session id, wedding-pitch-deck *)
(* checks it.  Date.now() does not run backwards; randomBytes(12) gives an *)
(* id not given before.                                                    *)
(***************************************************************************)
MaxSessions == 2
MaxDays == 2

\* The instants looked at: each whole day, one millisecond before and after
Instants ==
  {t \in {k * TTL_MS + e : k \in 0..MaxDays, e \in {-1, 0, 1}} : 0 <= t /\ t <= MaxDays * TTL_MS}

\* Time passes
AdvanceClock ==
  \E later \in Instants :
    /\ nowMs < later
    /\ nowMs' = later
    /\ UNCHANGED <<engineVars, sessions, issuedAt, lastCheck, state>>

\* wedding-planner handler: const intakeSessionId = issueWeddingIntakeSessionId()
CallWeddingPlanner ==
  LET id == Cardinality(DOMAIN issuedAt) + 1
  IN /\ id <= MaxSessions
     /\ sessions' = issueWeddingIntakeSessionId(sessions, id, nowMs)
     /\ issuedAt' = [k \in DOMAIN issuedAt \cup {id} |-> IF k = id THEN nowMs ELSE issuedAt[k]]
     /\ UNCHANGED <<engineVars, nowMs, lastCheck, state>>

\* wedding-pitch-deck handler: assertValidWeddingIntakeSessionId(input.intakeSessionId)
\* first, mustGetEnv("OPENAI_API_KEY") only after it returned.  The id given
\* is one a wedding-planner call returned, or 0: a string none returned.
CallWeddingPitchDeck ==
  \E id \in {0} \cup DOMAIN issuedAt :
    LET threw == assertThrows(sessions, id, nowMs)
    IN /\ sessions' = cleanupExpired(sessions, nowMs)
       /\ lastCheck' = [id |-> id, at |-> nowMs,
                        outcome |-> IF threw THEN "threw" ELSE "passed",
                        apiKeyRead |-> ~threw]
       /\ UNCHANGED <<engineVars, nowMs, issuedAt, state>>

InitRegistry == InitAt({BaseContext}, {Date(2026, 8, 10)})

NextRegistry ==
  \/ AdvanceClock
  \/ CallWeddingPlanner
  \/ CallWeddingPitchDeck

SpecRegistry == InitRegistry /\ [][NextRegistry]_vars

\* C14: the pitch-deck handler gets past its session check exactly when the
\* id was returned by a wedding-planner call less than 24 hours before;
\* otherwise it throws before the API key is read.  So an id is never
\* accepted at or after its expiry, and an unexpired id is never removed.
C14_SessionCheck ==
  /\ lastCheck.outcome # "none" =>
       /\ lastCheck.outcome = "passed" <=>
            /\ lastCheck.id \in DOMAIN issuedAt
            /\ lastCheck.at - issuedAt[lastCheck.id] < TTL_MS
       /\ lastCheck.outcome = "threw" => ~lastCheck.apiKeyRead
  /\ \A id \in DOMAIN issuedAt :
       nowMs - issuedAt[id] < TTL_MS => id \in DOMAIN sessions

\* An id issued at time 0 was refused exactly 24 hours later, while a second
\* id issued one millisecond after the first is still held
C14_Witness ==
  /\ lastCheck = [id |-> 1, at |-> TTL_MS, outcome |-> "threw", apiKeyRead |-> FALSE]
  /\ 1 \in DOMAIN issuedAt /\ issuedAt[1] = 0
  /\ 2 \in DOMAIN sessions /\ issuedAt[2] = 1

(***************************************************************************)
(* Percent normalisation and priority modifiers                            *)
(***************************************************************************)
\* C15: normalizePercents(weights, 90) scales each of the 7 weights to
\* weight / sum * 90 rounded to one decimal, adds the residual 90 - rounded
\* sum to the one category with the largest rounded share (the first in
\* category order on a tie), leaves the others as rounded, and the 7 results
\* sum to 90.0, for every weight vector the priority table produces
C15_ResidualToLargest ==
  \A i \in CallsOf("buildBudgetPlanningBundle") :
    calls[i].out.status = "returned" =>
      LET weights == AdjustedWeights(BASE_NON_BUFFER_WEIGHTS, input.priorities)
          sum == SumSeq([k \in 1..7 |-> weights[NON_BUFFER_CATEGORIES[k]]])
          rounded == [k \in 1..7 |-> RoundDiv(weights[NON_BUFFER_CATEGORIES[k]] * 900, sum)]
          largest == CHOOSE k \in 1..7 :
                       /\ \A m \in 1..7 : rounded[m] <= rounded[k]
                       /\ \A m \in 1..(k - 1) : rounded[m] < rounded[k]
          residual == 900 - SumSeq(rounded)
          percents == Percents(calls[i].out.value.budgetArchitecture.allocations)
      IN /\ \A k \in 1..7 :
              percents[k] = IF k = largest THEN rounded[k] + residual ELSE rounded[k]
         /\ SumSeq(SubSeq(percents, 1, 7)) = 900

\* A bundle was returned for priorities whose rounded shares sum to 89.9 with
\* Venue and Catering tied at 23.7, so one tenth was added to Venue
C15_Witness ==
  /\ input.priorities = <<"party", "intimacy", "photos">>
  /\ \E i \in CallsOf("buildBudgetPlanningBundle") :
       /\ calls[i].out.status = "returned"
       /\ LET weights == AdjustedWeights(BASE_NON_BUFFER_WEIGHTS, input.priorities)
              allocations == calls[i].out.value.budgetArchitecture.allocations
          IN allocations[1].percent =
               RoundDiv(weights["Venue"] * 900, SumWeights(weights, 1)) + 1

\* base weight + the three priorities' modifiers, floored once at 4
FlooredOnce(priorities) ==
  [category \in DOMAIN BASE_NON_BUFFER_WEIGHTS |->
     Max(4, BASE_NON_BUFFER_WEIGHTS[category]
              + SumSeq([k \in 1..Len(priorities) |-> PRIORITY_MODIFIERS[priorities[k]][category]]))]

\* C16: for every 3 distinct priorities in every order the adjusted weight of
\* each category is max(4, base weight + sum of the three modifiers), though
\* the code floors after each priority; so the 7 percents depend on the set
\* of priorities only
C16_FloorOrderIndependent ==
  \A i \in CallsOf("buildBudgetPlanningBundle") :
    calls[i].out.status = "returned" =>
      LET allocations == calls[i].out.value.budgetArchitecture.allocations
          expected == normalizePercents(FlooredOnce(input.priorities), 90)
      IN /\ AdjustedWeights(BASE_NON_BUFFER_WEIGHTS, input.priorities)
              = FlooredOnce(input.priorities)
         /\ \A k \in 1..7 : allocations[k].percent = expected[NON_BUFFER_CATEGORIES[k]]
         /\ \A q \in PriorityTriples :
              Range(q) = Range(input.priorities) =>
                normalizePercents(AdjustedWeights(BASE_NON_BUFFER_WEIGHTS, q), 90) = expected

\* A bundle was returned for party, elegance, intimacy: Planner is floored
\* after elegance (6 - 2 - 2 = 2) and again after intimacy
C16_Witness ==
  /\ input.priorities = <<"party", "elegance", "intimacy">>
  /\ BASE_NON_BUFFER_WEIGHTS["Planner"] + PRIORITY_MODIFIERS["party"]["Planner"]
       + PRIORITY_MODIFIERS["elegance"]["Planner"] < 4
  /\ \E i \in CallsOf("buildBudgetPlanningBundle") :
       /\ calls[i].out.status = "returned"
       /\ calls[i].out.value.budgetArchitecture.allocations[7].category = "Planner"

(***************************************************************************)
(* Venue fit score                                                         *)
(***************************************************************************)
\* clamp(55, 98, 52 + 9v + 10p + c) for catalog entry j, v counted over words
StatedFitScore(j, words) ==
  LET profile == VENUE_PROFILES[j]
      v == Cardinality({t \in 1..Len(profile.vibes) :
                          \E w \in words :
                            includes(w, profile.vibes[t]) \/ includes(profile.vibes[t], w)})
      p == Cardinality({t \in 1..Len(profile.priorities) :
                          profile.priorities[t] \in Range(input.priorities)})
      c == IF input.guestCount < profile.capacityRange[1] THEN -4
           ELSE IF input.guestCount > profile.capacityRange[2] THEN -6
           ELSE 8
  IN Max(55, Min(98, 52 + 9 * v + 10 * p + c))

TrimmedLowerCased(vibeWords) == {toLowerCase(trim(vibeWords[i])) : i \in 1..Len(vibeWords)}

\* every archetype's score, and every reported fitScore, is StatedFitScore over words
FitScoresAre(words) ==
  /\ \A j \in 1..Len(VENUE_PROFILES) :
       scoreVenueFit(VENUE_PROFILES[j], input, normalizeVibes(input.vibeWords))
         = StatedFitScore(j, words)
  /\ \A i \in CallsOf("buildVenueStrategyBrief") :
       calls[i].out.status = "returned" =>
         \A r \in 1..Len(calls[i].out.value.recommendations) :
           LET rec == calls[i].out.value.recommendations[r]
           IN /\ rec.fitScore = StatedFitScore(VenueIndex(rec.venueType), words)
              /\ 55 <= rec.fitScore /\ rec.fitScore <= 98

\* C17 as stated: fitScore = clamp(55, 98, 52 + 9v + 10p + c) with v the
\* number of vibe tags that some trimmed, lower-cased vibe word contains or is
\* contained in, p the number of priority tags among the 3 priorities, c -4
\* below the capacity range, -6 above it, +8 within it (bounds inclusive)
C17_FitScoreOverAllWords ==
  calls # <<>> => FitScoresAre(TrimmedLowerCased(input.vibeWords))

\* C17: the same, with v counted over the vibe words that are not empty
\* after trimming; every reported fitScore lies in [55, 98]
C17_FitScore ==
  calls # <<>> => FitScoresAre(TrimmedLowerCased(input.vibeWords) \ {<<>>})

\* A brief was returned for vibe words one of which is blank, at a guest
\* count that is the capacity minimum of a recommended archetype
C17_Witness ==
  /\ \E k \in 1..Len(input.vibeWords) : trim(input.vibeWords[k]) = <<>>
  /\ \E i \in CallsOf("buildVenueStrategyBrief") :
       /\ calls[i].out.status = "returned"
       /\ \E r \in 1..3 :
            VENUE_PROFILES[VenueIndex(calls[i].out.value.recommendations[r].venueType)]
              .capacityRange[1] = input.guestCount

(***************************************************************************)
(* Complexity score, booking window, peak-season severity                  *)
(***************************************************************************)
\* Whole calendar months from today to the wedding, one less when the
\* wedding's day of the month is earlier than today's
MonthsToEvent(weddingDate, today) ==
  (weddingDate.y * 12 + weddingDate.m) - (today.y * 12 + today.m)
    - (IF weddingDate.d < today.d THEN 1 ELSE 0)

HasDate(context) == context.weddingDate.kind = "iso"

\* The season given, else the season of the wedding date's month
SeasonOf(context) ==
  IF context.weddingSeason # UndefinedSeason THEN context.weddingSeason
  ELSE IF context.weddingDate.m \in {3, 4, 5} THEN "spring"
  ELSE IF context.weddingDate.m \in {6, 7, 8} THEN "summer"
  ELSE IF context.weddingDate.m \in {9, 10, 11} THEN "fall"
  ELSE "winter"

\* C18: complexityScore = guestLoad + timelinePressure + seasonPressure
\* + priorityPressure + nonNegotiablePressure: guestLoad 10/22/32/42 for
\* guestCount <= 50 / <= 100 / <= 150 / above; timelinePressure 7 without a
\* date, else 12 when the months to the event are <= 10, else 7;
\* seasonPressure 10 for summer or fall, else 6; priorityPressure 8 when at
\* least 2 of food, party, photos are chosen, else 4; nonNegotiablePressure
\* 10 when the text matches a high-friction pattern, else 5
C18_ComplexityScoreSum ==
  \A i \in CallsOf("buildWeddingSnapshot") :
    calls[i].out.status = "returned" =>
      LET guestLoad == IF input.guestCount <= 50 THEN 10
                       ELSE IF input.guestCount <= 100 THEN 22
                       ELSE IF input.guestCount <= 150 THEN 32 ELSE 42
          timelinePressure ==
            IF ~HasDate(input) THEN 7
            ELSE IF MonthsToEvent(input.weddingDate, calls[i].at) <= 10 THEN 12 ELSE 7
          seasonPressure == IF SeasonOf(input) \in {"summer", "fall"} THEN 10 ELSE 6
          priorityPressure ==
            IF Cardinality(Range(input.priorities) \cap {"food", "party", "photos"}) >= 2
            THEN 8 ELSE 4
          nonNegotiablePressure ==
            IF \E pattern \in highPressurePatterns :
                 includes(toLowerCase(input.nonNegotiable), pattern)
            THEN 10 ELSE 5
      IN calls[i].out.value.complexityScore =
           guestLoad + timelinePressure + seasonPressure + priorityPressure
             + nonNegotiablePressure

\* A snapshot was built on 2027-01-15 for a wedding on 2027-12-05: 11 calendar
\* months apart, 10 whole months because the 5th is before the 15th
C18_Witness ==
  /\ HasDate(input)
  /\ \E i \in CallsOf("buildWeddingSnapshot") :
       /\ calls[i].out.status = "returned"
       /\ (input.weddingDate.y - calls[i].at.y) * 12
            + (input.weddingDate.m - calls[i].at.m) = 11
       /\ MonthsToEvent(input.weddingDate, calls[i].at) = 10

\* The clock the snapshot behind call i was built at
SnapshotClock(i) ==
  IF calls[i].op = "wedding-venue-strategy" THEN calls[i].snapshotAt ELSE calls[i].at

\* C19: bookingWindowMonthsBefore is [12,14] when the snapshot's
\* complexityLevel is high, [10,12] when medium, [8,10] when low; urgency is
\* accelerated if and only if a concrete wedding date exists and the months
\* to the event are strictly less than bookingWindowMonthsBefore[0] (so also
\* for a date in the past), and normal otherwise, as whenever only a season
\* is given
C19_BookingWindowAndUrgency ==
  \A i \in CallsOf("buildVenueStrategyBrief") \cup CallsOf("wedding-venue-strategy") :
    calls[i].out.status = "returned" =>
      LET level == buildWeddingSnapshot(input, SnapshotClock(i)).value.complexityLevel
          timeline == calls[i].out.value.venueTimeline
          window == timeline.bookingWindowMonthsBefore
      IN /\ level = "high" => window = <<12, 14>>
         /\ level = "medium" => window = <<10, 12>>
         /\ level = "low" => window = <<8, 10>>
         /\ timeline.urgency \in {"accelerated", "normal"}
         /\ timeline.urgency = "accelerated" <=>
              /\ HasDate(input)
              /\ MonthsToEvent(input.weddingDate, calls[i].at) < window[1]

\* A brief was returned for a wedding date already past: accelerated
C19_Witness ==
  \E i \in CallsOf("buildVenueStrategyBrief") :
    /\ calls[i].out.status = "returned"
    /\ HasDate(input)
    /\ MonthsToEvent(input.weddingDate, calls[i].at) < 0
    /\ calls[i].out.value.venueTimeline.urgency = "accelerated"
    /\ calls[i].out.value.venueTimeline.bookingWindowMonthsBefore = <<10, 12>>

BudgetCalls == CallsOf("buildBudgetPlanningBundle") \cup CallsOf("wedding-budget-architecture")

\* The severity of the peak-season risk in a returned bundle
PeakSeverity(bundle) ==
  LET topRisks == bundle.riskRadar.topRisks
      k == CHOOSE k \in 1..Len(topRisks) : topRisks[k].risk = "Peak season availability"
  IN topRisks[k].severity

InSeason(context) == SeasonOf(context) \in {"summer", "fall"}

\* C20 as stated: peak-season availability severity is high when the season
\* is summer or fall and the months to the event are < 10, medium for every
\* other summer or fall input, and low for every input whose season is
\* spring or winter; without an exact date it is never high
C20_PeakSeverityLowOutOfSeason ==
  \A i \in BudgetCalls :
    calls[i].out.status = "returned" =>
      LET severity == PeakSeverity(calls[i].out.value)
          soon == HasDate(input) /\ MonthsToEvent(input.weddingDate, calls[i].at) < 10
      IN /\ (InSeason(input) /\ soon) => severity = "high"
         /\ (InSeason(input) /\ ~soon) => severity = "medium"
         /\ ~InSeason(input) => severity = "low"
         /\ ~HasDate(input) => severity # "high"

\* C20: high when the season is summer or fall and the months to the event
\* are < 10, medium for every other summer or fall input; in spring or
\* winter medium when the months to the event are < 8 and low otherwise;
\* without an exact date the months count as 12, so the severity is medium
\* in summer or fall, low in spring or winter, and never high
C20_PeakSeverity ==
  \A i \in BudgetCalls :
    calls[i].out.status = "returned" =>
      LET severity == PeakSeverity(calls[i].out.value)
          months == IF HasDate(input)
                    THEN MonthsToEvent(input.weddingDate, calls[i].at) ELSE 12
      IN /\ (InSeason(input) /\ months < 10) => severity = "high"
         /\ (InSeason(input) /\ ~(months < 10)) => severity = "medium"
         /\ (~InSeason(input) /\ months < 8) => severity = "medium"
         /\ (~InSeason(input) /\ ~(months < 8)) => severity = "low"
         /\ ~HasDate(input) => severity # "high"

\* A bundle was returned for a spring wedding 7 whole months away: medium
C20_Witness ==
  \E i \in BudgetCalls :
    /\ calls[i].out.status = "returned"
    /\ HasDate(input) /\ input.weddingSeason = UndefinedSeason
    /\ SeasonOf(input) = "spring"
    /\ MonthsToEvent(input.weddingDate, calls[i].at) = 7
    /\ PeakSeverity(calls[i].out.value) = "medium"

(***************************************************************************)
(* Season resolution: a date in every month of the year, two dates past    *)
(* the month's end, with and without a supplied season                     *)
(***************************************************************************)
SeasonInputs ==
  {[BaseContext EXCEPT !.weddingDate = w, !.weddingSeason = s] :
     w \in {IsoDate(2027, m, 10) : m \in 1..12}
             \cup {IsoDate(2027, 2, 30), IsoDate(2027, 11, 31)},
     s \in WeddingSeasons \cup {UndefinedSeason}}
  \cup {[BaseContext EXCEPT !.weddingDate = UndefinedDate, !.weddingSeason = s] :
          s \in WeddingSeasons}

InitSeason == InitWith(SeasonInputs)

NextSeason ==
  \/ Tick
  \/ CallBuildWeddingSnapshot
  \/ CallBuildBudgetPlanningBundle

SpecSeason == InitSeason /\ [][NextSeason]_vars

\* The supplied season, else the season of the UTC month of the Date the
\* weddingDate string denotes
ResolvedSeason(context) ==
  LET month == parseWeddingDate(context.weddingDate).m
  IN IF context.weddingSeason \in WeddingSeasons THEN context.weddingSeason
     ELSE IF month \in {3, 4, 5} THEN "spring"
     ELSE IF month \in {6, 7, 8} THEN "summer"
     ELSE IF month \in {9, 10, 11} THEN "fall"
     ELSE "winter"

\* The seasonPressure summand of a snapshot built at `clock`
SeasonPressureIn(snapshot, clock) ==
  LET context == snapshot.normalizedContext
  IN snapshot.complexityScore
       - getGuestLoadScore(context.guestCount)
       - getTimelinePressure(parseWeddingDate(context.weddingDate), clock)
       - getPriorityPressure(context.priorities)
       - getNonNegotiablePressure(context.nonNegotiable)

\* The peak-season risk of a returned bundle
PeakRisk(bundle) ==
  LET topRisks == bundle.riskRadar.topRisks
  IN topRisks[CHOOSE k \in 1..Len(topRisks) : topRisks[k].risk = "Peak season availability"]

HighDemandReason == "High-demand months compress venue and vendor options early."

\* C21: the season every component uses is the supplied weddingSeason when
\* one is present (also when a weddingDate is supplied too), and otherwise
\* the season of the weddingDate's UTC month: March-May spring, June-August
\* summer, September-November fall, December-February winter;
\* buildWeddingSnapshot (seasonPressure) and buildBudgetPlanningBundle
\* (peak-season severity) resolve the same season for the same context
C21_OneSeason ==
  LET season == ResolvedSeason(input)
      peak == season \in {"summer", "fall"}
  IN /\ getNormalizedSeason(input) = season
     /\ \A i \in CallsOf("buildWeddingSnapshot") :
          calls[i].out.status = "returned" =>
            SeasonPressureIn(calls[i].out.value, calls[i].at) = IF peak THEN 10 ELSE 6
     /\ \A j \in CallsOf("buildBudgetPlanningBundle") :
          calls[j].out.status = "returned" =>
            LET risk == PeakRisk(calls[j].out.value)
            IN /\ (risk.reason = HighDemandReason) <=> peak
               /\ risk.severity \in (IF peak THEN {"high", "medium"} ELSE {"medium", "low"})
     /\ \A i \in CallsOf("buildWeddingSnapshot"), j \in CallsOf("buildBudgetPlanningBundle") :
          (calls[i].out.status = "returned" /\ calls[j].out.status = "returned") =>
            ((SeasonPressureIn(calls[i].out.value, calls[i].at) = 10)
               <=> (PeakRisk(calls[j].out.value).reason = HighDemandReason))

\* A July date was supplied together with the season winter, and both a
\* snapshot and a budget bundle were built: both used winter
C21_Witness ==
  /\ input.weddingDate = IsoDate(2027, 7, 10)
  /\ input.weddingSeason = "winter"
  /\ \E i \in CallsOf("buildWeddingSnapshot"), j \in CallsOf("buildBudgetPlanningBundle") :
       /\ calls[i].out.status = "returned" /\ calls[j].out.status = "returned"
       /\ SeasonPressureIn(calls[i].out.value, calls[i].at) = 6
       /\ PeakRisk(calls[j].out.value).reason # HighDemandReason

(***************************************************************************)
(* Design direction: vibe lists of 1 to 3 words over library keys (plain,  *)
(* padded and capitalised), words outside the library and names every      *)
(* object inherits, plus lists of 5 with repeats                           *)
(***************************************************************************)
DesignWords ==
  {T_modern, T_rustic, <<" ", "Roman", "tic">>, T_minimalist, T_dramatic,
   <<"boho">>, <<"modern", " ", "roman", "tic">>, <<"constructor">>, <<"__proto__">>}

DesignVibeLists ==
  {<<a>> : a \in DesignWords}
    \cup {<<a, b>> : a \in DesignWords, b \in DesignWords}
    \cup {<<a, b, c>> : a \in DesignWords, b \in DesignWords, c \in DesignWords}
    \cup {<<T_modern, T_rustic, T_romantic, T_minimalist, T_dramatic>>,
          <<T_rustic, T_rustic, T_minimalist, <<"boho">>, T_dramatic>>,
          <<T_modern, T_modern, T_rustic, T_rustic, T_romantic>>}

DesignInputs == {[BaseContext EXCEPT !.vibeWords = v] : v \in DesignVibeLists}

InitDesign == InitWith(DesignInputs)

NextDesign == CallBuildDesignDirection

SpecDesign == InitDesign /\ [][NextDesign]_vars

\* The word is one of the five library keys after trimming and lower-casing
IsLibraryKey(word) == toLowerCase(trim(word)) \in VIBE_LIBRARY_KEYS

\* vibeWords without the words that are no library key
LibraryWords(vibeWords) ==
  LET Keep(word) == IsLibraryKey(word)
  IN SelectSeq(vibeWords, Keep)

\* C22: in buildDesignDirection a vibe word that, after trimming and
\* lower-casing, is not one of the five library keys is silently ignored:
\* removing it from vibeWords leaves the returned DesignDirection unchanged
\* and it never causes a failure; when no vibe word matches, the result is
\* the fixed default profile (palette ivory, sand, warm taupe; dress code
\* 'Formal attire')
C22_UnmatchedWordsIgnored ==
  \A i \in CallsOf("buildDesignDirection") :
    LET kept == LibraryWords(input.vibeWords)
        out == calls[i].out
    IN /\ out.status = "returned"
       /\ IF kept = <<>>
          THEN /\ out.value = getDefaultDesignDirection
               /\ out.value.colorPalette = <<"ivory", "sand", "warm taupe">>
               /\ out.value.dressCodeSuggestion = <<"Formal attire">>
          ELSE out = buildDesignDirection([input EXCEPT !.vibeWords = kept])

\* The first n distinct entries of all, in order of first occurrence
RECURSIVE FirstDistinct(_, _, _)
FirstDistinct(all, seen, n) ==
  IF all = <<>> \/ n = 0 THEN <<>>
  ELSE IF Head(all) \in seen THEN FirstDistinct(Tail(all), seen, n)
  ELSE <<Head(all)>> \o FirstDistinct(Tail(all), seen \cup {Head(all)}, n - 1)

\* The library profiles of the vibe words that match, in vibe-word order
ProfilesInWordOrder(vibeWords) ==
  LET kept == LibraryWords(vibeWords)
  IN [k \in 1..Len(kept) |-> VibeProfile(toLowerCase(trim(kept[k])))]

DeclaresBlackTie(profile) == includes(profile.dressCode, <<"Black-tie">>)

\* C23: when at least one vibe word matches, colorPalette is the first 4
\* distinct colours and textures the first 4 distinct textures over the
\* matched profiles taken in vibe-word order (at most 4 entries, no
\* duplicates, also when a vibe word is listed twice); lightingStyle and
\* floralDirection come from the first matched profile; dressCodeSuggestion
\* is the dress code of the first matched profile that declares a black-tie
\* code if any does, whatever its position, and otherwise the first matched
\* profile's dress code
C23_MatchedProfilesMerged ==
  \A i \in CallsOf("buildDesignDirection") :
    LET profiles == ProfilesInWordOrder(input.vibeWords)
        colours == Concat([k \in 1..Len(profiles) |-> profiles[k].colorPalette])
        allTextures == Concat([k \in 1..Len(profiles) |-> profiles[k].textures])
        blackTie == {k \in 1..Len(profiles) : DeclaresBlackTie(profiles[k])}
        direction == calls[i].out.value
    IN (Len(profiles) >= 1 /\ calls[i].out.status = "returned") =>
         /\ direction.colorPalette = FirstDistinct(colours, {}, 4)
         /\ direction.textures = FirstDistinct(allTextures, {}, 4)
         /\ Len(direction.colorPalette) <= 4
         /\ Cardinality(Range(direction.colorPalette)) = Len(direction.colorPalette)
         /\ Len(direction.textures) <= 4
         /\ Cardinality(Range(direction.textures)) = Len(direction.textures)
         /\ direction.lightingStyle = profiles[1].lighting
         /\ direction.floralDirection = profiles[1].floral
         /\ direction.dressCodeSuggestion =
              IF blackTie = {} THEN profiles[1].dressCode
              ELSE profiles[CHOOSE k \in blackTie : \A other \in blackTie : k <= other].dressCode

(***************************************************************************)
(* Task timeline: a wedding in every month of 2027, on a day past the      *)
(* month's end, in a year below 100, and season-only weddings              *)
(***************************************************************************)
TimelineInputs ==
  {[BaseContext EXCEPT !.weddingDate = w, !.weddingSeason = s] :
     w \in {IsoDate(2027, m, 10) : m \in 1..12}
             \cup {IsoDate(2027, 2, 30), IsoDate(2100, 1, 1), IsoDate(50, 6, 10)},
     s \in {UndefinedSeason, "fall"}}
  \cup {[BaseContext EXCEPT !.weddingDate = UndefinedDate, !.weddingSeason = s] :
          s \in WeddingSeasons}

InitTimeline == InitWith(TimelineInputs)

NextTimeline == CallBuildBudgetPlanningBundle

SpecTimeline == InitTimeline /\ [][NextTimeline]_vars

PhaseOffsets == << <<12, 9>>, <<9, 6>>, <<6, 3>>, <<3, 0>> >>

\* The month k months (k <= 12) before the month of date, as "Mon YYYY"
MonthBefore(date, k) ==
  IF date.m > k THEN MonthShort[date.m - k] \o " " \o ToString(date.y)
  ELSE MonthShort[date.m + 12 - k] \o " " \o ToString(date.y - 1)

\* C24: dynamicTaskTimeline has exactly 4 phases, in the order '12-9
\* months', '9-6 months', '6-3 months', '3 months to wedding', each with 3
\* tasks.  With a wedding date, phase (s, e) has the window from (wedding
\* month minus s months) to (wedding month minus e months): each phase ends
\* in the month the next starts in and the last window ends in the
\* wedding's own month and year.  Without a date every window is the
\* season-relative label naming the supplied season.
C24_TaskTimeline ==
  \A i \in CallsOf("buildBudgetPlanningBundle") :
    calls[i].out.status = "returned" =>
      LET phases == calls[i].out.value.dynamicTaskTimeline.phases
          wedding == parseWeddingDate(input.weddingDate)
      IN /\ Len(phases) = 4
         /\ [k \in 1..4 |-> phases[k].phase] =
              <<"12-9 months", "9-6 months", "6-3 months", "3 months to wedding">>
         /\ \A k \in 1..4 : Len(phases[k].tasks) = 3
         /\ HasDate(input) =>
              \A k \in 1..4 :
                phases[k].window =
                  MonthBefore(wedding, PhaseOffsets[k][1]) \o " - "
                    \o MonthBefore(wedding, PhaseOffsets[k][2])
         /\ ~HasDate(input) =>
              /\ input.weddingSeason \in WeddingSeasons
              /\ \A k \in 1..3 :
                   phases[k].window =
                     ToString(PhaseOffsets[k][1]) \o "-" \o ToString(PhaseOffsets[k][2])
                       \o " months out (" \o input.weddingSeason \o ")"
              /\ phases[4].window =
                   "3 months out to wedding (" \o input.weddingSeason \o ")"

(***************************************************************************)
(* The whole bundle: every ordering of the priorities, small and large     *)
(* guest lists, library vibes and an inherited name after a library vibe   *)
(***************************************************************************)
BundleInputs ==
  {[BaseContext EXCEPT !.priorities = p, !.guestCount = g, !.vibeWords = v] :
     p \in PriorityTriples,
     g \in {40, 120},
     v \in {BaseContext.vibeWords, <<T_dramatic, <<"__proto__">> >>}}

InitBundle == InitWith(BundleInputs)

NextBundle ==
  \/ Tick
  \/ CallBuildWeddingPlanningBundle

SpecBundle == InitBundle /\ [][NextBundle]_vars

\* a comes before b when the spend lines are ranked by percent, largest
\* first, equal percents in category order
RanksBefore(spend, a, b) ==
  \/ spend[a].percent > spend[b].percent
  \/ spend[a].percent = spend[b].percent /\ a < b

AllocationLabel(item) == item.category \o " (" \o FormatPercent(item.percent) \o "%)"

\* C25: in every WeddingPlanningBundle the plannerPitch agrees with the
\* bundle's other parts: planningRoadmap[0] names the lower-cased venueType
\* of venueStrategyBrief.recommendations[0]; budgetArchitectureSummary
\* names exactly the three non-Buffer allocations of budgetPlanning with
\* the largest percents, in descending percent order (ties in category
\* order) with those percents; designDirectionSummary embeds
\* designDirection's narrativeLine, floralDirection and
\* dressCodeSuggestion; budgetPlanning's allocations stay in category order
C25_PitchAgreesWithBundle ==
  \A i \in CallsOf("buildWeddingPlanningBundle") :
    calls[i].out.status = "returned" =>
      LET bundle == calls[i].out.value
          pitch == bundle.plannerPitch
          allocations == bundle.budgetPlanning.budgetArchitecture.allocations
          spend == SelectSeq(allocations, LAMBDA item : item.category # "Buffer")
          design == bundle.designDirection
      IN /\ pitch.planningRoadmap[1] =
              <<"Shortlist and tour 5 "
                  \o LowerVenueType(bundle.venueStrategyBrief.recommendations[1].venueType)
                  \o " options within 3 weeks.">>
         /\ \E a, b, c \in 1..Len(spend) :
              /\ RanksBefore(spend, a, b) /\ RanksBefore(spend, b, c)
              /\ \A other \in 1..Len(spend) \ {a, b, c} : RanksBefore(spend, c, other)
              /\ pitch.budgetArchitectureSummary =
                   <<"Your budget architecture prioritizes ",
                     AllocationLabel(spend[a]), ", ",
                     AllocationLabel(spend[b]), ", ",
                     AllocationLabel(spend[c]),
                     ", while preserving a protected 10% buffer to control risk and avoid late-stage churn.">>
         /\ pitch.designDirectionSummary =
              <<design.narrativeLine \o " Floral direction: " \o design.floralDirection
                  \o ". Dress code recommendation: ">>
                \o design.dressCodeSuggestion \o <<".">>
         /\ Categories(allocations) = NON_BUFFER_CATEGORIES \o <<"Buffer">>

\* A bundle was returned whose two largest spend lines have equal percents
\* and whose largest three are not the first three categories
C25_Witness ==
  \E i \in CallsOf("buildWeddingPlanningBundle") :
    /\ calls[i].out.status = "returned"
    /\ LET allocations == calls[i].out.value.budgetPlanning.budgetArchitecture.allocations
       IN /\ \E a, b \in 1..7 :
               /\ a # b /\ allocations[a].percent = allocations[b].percent
               /\ \A other \in 1..7 : allocations[other].percent <= allocations[a].percent
          /\ \E k \in 4..7 : allocations[k].percent > allocations[3].percent

(***************************************************************************)
(* wedding-pitch-deck: normalizePlan, the budget lines of the plan the     *)
(* text model returned (venues, slides and texts are left out)             *)
(***************************************************************************)
\* A field the returned JSON does not hold
Missing == <<"undefined">>

\* A JSON value in the percent field: a number, in tenths, or anything
\* Number() turns into NaN
NumberValue(tenths) == [kind |-> "number", tenths |-> tenths]
NotANumber == [kind |-> "other", tenths |-> 0]

\* Math.round(Number(value) || 0): halves go upward
RoundedPercent(value) ==
  IF value.kind = "number" THEN (value.tenths + 5) \div 10 ELSE 0

DefaultBudgetLines ==
  << [category |-> <<"Venue">>, percent |-> 35, amountUsd |-> 0],
     [category |-> <<"Catering + Bar">>, percent |-> 35, amountUsd |-> 0],
     [category |-> <<"Photo + Video">>, percent |-> 10, amountUsd |-> 0],
     [category |-> <<"Florals + Decor">>, percent |-> 10, amountUsd |-> 0],
     [category |-> <<"Music + Entertainment">>, percent |-> 5, amountUsd |-> 0],
     [category |-> <<"Contingency">>, percent |-> 5, amountUsd |-> 0] >>

SanitizedLines(lines) ==
  LET mapped == [k \in 1..Len(lines) |->
                   [category |-> IF lines[k].category = Missing THEN <<"Other">>
                                 ELSE lines[k].category,
                    percent |-> Max(0, RoundedPercent(lines[k].percent)),
                    amountUsd |-> 0]]
      kept == SelectSeq(mapped, LAMBDA l : Len(trim(l.category)) > 0)
  IN IF Len(kept) = 0 THEN DefaultBudgetLines ELSE kept

normalizePlan(toolInput, plan) ==
  LET sanitizedLines == SanitizedLines(plan.lines)
      total == SumSeq(Percents(sanitizedLines))
      sum == IF total = 0 THEN 1 ELSE total
      scaled == [k \in 1..Len(sanitizedLines) |->
                   [sanitizedLines[k] EXCEPT
                      !.percent = Max(0, RoundDiv(sanitizedLines[k].percent * 100, sum))]]
      scaledSum == SumSeq(Percents(scaled))
      delta == 100 - scaledSum
      adjusted == [scaled EXCEPT ![Len(scaled)].percent = Max(0, @ + delta)]
      recomputed == [k \in 1..Len(adjusted) |->
                       [adjusted[k] EXCEPT
                          !.amountUsd = RoundDiv(toolInput.budgetUsd * adjusted[k].percent, 100)]]
  IN [budget |-> [totalUsd |-> toolInput.budgetUsd, lines |-> recomputed]]

\* The handler's step after the text model answered
CallNormalizePlan ==
  Record("normalizePlan", Returned(normalizePlan(input.toolInput, input.rawPlan)))

\* Up to 3 lines; percents negative, zero, fractional, whole, above 100 and
\* non-numeric; a blank and a missing category
RawBudgetLines ==
  {[category |-> <<"Venue">>, percent |-> v] :
     v \in {NumberValue(-35), NumberValue(0), NumberValue(25), NumberValue(30),
            NumberValue(50), NumberValue(600), NumberValue(1200), NotANumber}}
    \cup {[category |-> <<" ">>, percent |-> NumberValue(30)],
          [category |-> Missing, percent |-> NumberValue(30)]}

PlanInputs ==
  LET lists == {<<>>} \cup {<<a>> : a \in RawBudgetLines}
                 \cup {<<a, b>> : a \in RawBudgetLines, b \in RawBudgetLines}
                 \cup {<<a, b, c>> : a \in RawBudgetLines, b \in RawBudgetLines,
                                     c \in RawBudgetLines}
  IN {[toolInput |-> [budgetUsd |-> b], rawPlan |-> [lines |-> l]] :
        b \in {1, 30000, 45001}, l \in lists}

InitPlan == InitAt(PlanInputs, {Date(2026, 8, 10)})

NextPlan == CallNormalizePlan

SpecPlan == InitPlan /\ [][NextPlan]_vars

\* C26: normalizePlan turns any budget-line list returned by the model (any
\* number of lines, any percent values including negative, fractional,
\* non-numeric, all zero, or a last line of 0) into lines whose percents
\* are non-negative integers summing to exactly 100, with each amountUsd =
\* round(budgetUsd * percent / 100) and budget.totalUsd = the input budgetUsd
C26_PlanPercentsSumTo100 ==
  \A i \in CallsOf("normalizePlan") :
    LET budget == calls[i].out.value.budget
    IN /\ \A k \in 1..Len(budget.lines) :
            /\ budget.lines[k].percent \in Nat
            /\ 100 * (2 * budget.lines[k].amountUsd - 1)
                 <= 2 * input.toolInput.budgetUsd * budget.lines[k].percent
            /\ 2 * input.toolInput.budgetUsd * budget.lines[k].percent
                 < 100 * (2 * budget.lines[k].amountUsd + 1)
       /\ SumSeq(Percents(budget.lines)) = 100
       /\ budget.totalUsd = input.toolInput.budgetUsd

(***************************************************************************)
(* Dollar amounts at the smallest budgets the schema accepts and at an odd *)
(* budget sum, for every ordering of the priorities                        *)
(***************************************************************************)
AmountInputs ==
  {[BaseContext EXCEPT !.priorities = p, !.budgetMin = b[1], !.budgetMax = b[2]] :
     p \in PriorityTriples,
     b \in {<<1000, 1000>>, <<1000, 1001>>, <<1000, 1010>>, <<35000, 45001>>}}

InitAmounts == InitWith(AmountInputs)

NextAmounts == CallBuildBudgetPlanningBundle

SpecAmounts == InitAmounts /\ [][NextAmounts]_vars

ComplexityInputs ==
  {[BaseContext EXCEPT !.guestCount = g, !.priorities = p, !.weddingDate = w[1],
                       !.weddingSeason = w[2], !.nonNegotiable = n] :
     g \in {10, 50, 51, 400},
     p \in {<<"intimacy", "elegance", "photos">>, <<"food", "elegance", "photos">>,
            <<"food", "party", "photos">>},
     w \in WhenOptions \cup {<<IsoDate(2026, 8, 20), UndefinedSeason>>,
                           <<IsoDate(2028, 3, 10), UndefinedSeason>>},
     n \in {BaseContext.nonNegotiable, <<"Outdoor", " ", "ceremony">>}}

InitComplexity == InitWith(ComplexityInputs)

NextComplexity ==
  \/ Tick
  \/ CallBuildWeddingSnapshot
  \/ CallBuildVenueStrategyBrief

SpecComplexity == InitComplexity /\ [][NextComplexity]_vars

\* Every summand of the complexity score is at its smallest
AllSummandsSmallest(context, today) ==
  /\ context.guestCount <= 50
  /\ ~HasDate(context) \/ MonthsToEvent(context.weddingDate, today) > 10
  /\ ResolvedSeason(context) \in {"spring", "winter"}
  /\ Cardinality(Range(context.priorities) \cap {"food", "party", "photos"}) < 2
  /\ ~\E pattern \in highPressurePatterns :
        includes(toLowerCase(context.nonNegotiable), pattern)

\* C28: for every valid input and every clock value the unclamped
\* complexity sum lies in [32, 82], so the clamp to [0, 100] never changes
\* it; complexityLevel is low (and hence the booking window [8, 10]) only
\* when the score is exactly 32, i.e. guestCount <= 50, timeline pressure
\* 7, season spring or winter, fewer than 2 of food, party, photos chosen,
\* and no high-friction non-negotiable
C28_ScoreRangeAndLow ==
  /\ \A i \in CallsOf("buildWeddingSnapshot") :
       calls[i].out.status = "returned" =>
         LET snapshot == calls[i].out.value
             sum == ComplexityScoreUnclamped(snapshot.normalizedContext, calls[i].at)
         IN /\ sum \in 32..82
            /\ snapshot.complexityScore = sum
            /\ snapshot.complexityLevel = "low" => snapshot.complexityScore = 32
            /\ snapshot.complexityScore = 32 <=> AllSummandsSmallest(input, calls[i].at)
  /\ \A i \in CallsOf("buildVenueStrategyBrief") :
       calls[i].out.status = "returned" =>
         (calls[i].out.value.venueTimeline.bookingWindowMonthsBefore = <<8, 10>>
            => AllSummandsSmallest(input, calls[i].at))

\* A snapshot with score 32 and a venue brief with window [8, 10] were both
\* returned for a dated winter wedding more than 10 months away
C28_Witness ==
  /\ HasDate(input)
  /\ \E i \in CallsOf("buildWeddingSnapshot"), j \in CallsOf("buildVenueStrategyBrief") :
       /\ calls[i].out.status = "returned" /\ calls[j].out.status = "returned"
       /\ calls[i].out.value.complexityScore = 32
       /\ calls[i].out.value.complexityLevel = "low"
       /\ calls[j].out.value.venueTimeline.bookingWindowMonthsBefore = <<8, 10>>

(***************************************************************************)
(* The ledger's callers: store operations and the addGuest tool, any       *)
(* order; contacts that differ only in case and padding; ids of guests     *)
(* that exist and that do not                                              *)
(***************************************************************************)
MaxLedgerCalls == 3

LedgerCall(op, args, outcome) ==
  /\ Len(calls) < MaxLedgerCalls
  /\ calls' = Append(calls, [op |-> op, at |-> now, args |-> args, out |-> outcome.out])
  /\ state' = outcome.state
  /\ UNCHANGED <<input, now, venueRanges, registryVars>>

GuestContacts == {<<"a@x">>, <<" ", "A@X", " ">>, <<"b@x">>}

CallAddGuest ==
  \E contact \in GuestContacts :
    LET in == [name |-> <<"Ana">>, contact |-> contact]
    IN LedgerCall("addGuest", in, addGuest(state, in))

CallAddGuestTool ==
  \E contact \in {<<" ", "A@X", " ">>, <<" ", " ">>} :
    LET in == [name |-> <<"Ana">>, contact |-> contact]
    IN LedgerCall("addGuestTool", in, addGuestTool(state, in))

CallUpdateGuestStatus ==
  \E guestId \in {"guest_1", "guest_2"}, rsvpStatus \in {"Yes", "Pending"} :
    LedgerCall("updateGuestStatus", [guestId |-> guestId, rsvpStatus |-> rsvpStatus],
               updateGuestStatus(state, guestId, rsvpStatus))

CallSetEventDetails ==
  LET in == [event_date |-> "2027-07-10", location |-> "Lisbon", budget |-> 40000]
  IN LedgerCall("setEventDetails", in, setEventDetails(state, in))

CallAddTask ==
  LET in == [title |-> "book band", due_date |-> "2027-01-15"]
  IN LedgerCall("addTask", in, addTask(state, in))

CallAddScheduleItem ==
  LET in == [time |-> "16:00", description |-> "Ceremony"]
  IN LedgerCall("addScheduleItem", in, addScheduleItem(state, in))

CallSetLatestInvitation ==
  LedgerCall("setLatestInvitation", [theme |-> "coastal", text |-> "Join us"],
             setLatestInvitation(state, "coastal", "Join us"))

InitLedger == InitAt({BaseContext}, {Date(2026, 8, 10)})

NextLedger ==
  \/ CallAddGuest
  \/ CallAddGuestTool
  \/ CallUpdateGuestStatus
  \/ CallSetEventDetails
  \/ CallAddTask
  \/ CallAddScheduleItem
  \/ CallSetLatestInvitation

SpecLedger == InitLedger /\ [][NextLedger]_vars

\* A contact as the duplicate check compares it
TrimmedLowerContact(contact) == toLowerCase(trim(contact))

\* The calls that added a guest, and the id each handed back
AddedGuestCalls ==
  {i \in 1..Len(calls) : calls[i].op \in {"addGuest", "addGuestTool"}
                           /\ calls[i].out.status = "returned"}

ReturnedGuestId(i) ==
  IF calls[i].op = "addGuestTool" THEN calls[i].out.value.guest_id
  ELSE calls[i].out.value.id

\* C29: after any sequence of addGuest and updateGuestStatus calls guest
\* ids are pairwise distinct, the k-th successfully added guest has id
\* guest_k (a rejected addGuest consumes no id), no two guests have
\* contacts that are equal after trimming and lower-casing, and every
\* guest's rsvp_status is Pending until an updateGuestStatus for its id
\* sets it
C29_GuestList ==
  LET guests == state.guests
  IN /\ \A j, k \in 1..Len(guests) : j # k => guests[j].id # guests[k].id
     /\ Len(guests) = Cardinality(AddedGuestCalls)
     /\ \A i \in AddedGuestCalls :
          LET k == Cardinality({j \in AddedGuestCalls : j <= i})
          IN /\ ReturnedGuestId(i) = "guest_" \o ToString(k)
             /\ guests[k].id = "guest_" \o ToString(k)
     /\ \A j, k \in 1..Len(guests) :
          j # k => TrimmedLowerContact(guests[j].contact)
                     # TrimmedLowerContact(guests[k].contact)
     /\ \A k \in 1..Len(guests) :
          LET updates == {i \in 1..Len(calls) :
                            /\ calls[i].op = "updateGuestStatus"
                            /\ calls[i].out.status = "returned"
                            /\ calls[i].args.guestId = guests[k].id}
          IN IF updates = {} THEN guests[k].rsvp_status = "Pending"
             ELSE guests[k].rsvp_status =
                    calls[CHOOSE i \in updates : \A other \in updates : other <= i]
                      .args.rsvpStatus

\* A guest was added, an addGuest with the same contact in other case and
\* padding was rejected, and the next guest added got the id guest_2
C29_Witness ==
  /\ Len(calls) = 3
  /\ calls[1].op = "addGuest" /\ calls[1].out.status = "returned"
  /\ calls[2].op = "addGuest" /\ calls[2].out.status = "threw"
  /\ calls[3].op = "addGuest" /\ calls[3].out.status = "returned"
  /\ calls[3].out.value.id = "guest_2"
  /\ Len(state.guests) = 2

\* What the call just logged did to the ledger
FailedCallChangesNothing ==
  Len(calls') = Len(calls) + 1 =>
    LET call == calls'[Len(calls')]
        duplicate == \E k \in 1..Len(state.guests) :
                       TrimmedLowerContact(state.guests[k].contact)
                         = TrimmedLowerContact(call.args.contact)
        named == {k \in 1..Len(state.guests) : state.guests[k].id = call.args.guestId}
    IN /\ (call.op \in {"addGuest", "addGuestTool"} /\ duplicate) =>
            call.out.status = "threw" /\ state' = state
       /\ (call.op = "updateGuestStatus" /\ named = {}) =>
            call.out.status = "threw" /\ state' = state
       /\ call.out.status = "threw" => state' = state
       /\ (call.op = "updateGuestStatus" /\ named # {}) =>
            /\ call.out.status = "returned"
            /\ \E k \in named :
                 state' = [state EXCEPT !.guests[k].rsvp_status = call.args.rsvpStatus]

\* C30: a ledger operation that fails - addGuest with a contact that
\* duplicates an existing guest's contact (case-insensitively, ignoring
\* surrounding whitespace), or updateGuestStatus with an id that names no
\* guest - throws and leaves the whole ledger state unchanged (guests,
\* tasks, schedule, event details, invitation and all three id counters); a
\* successful updateGuestStatus changes only the rsvp_status of the named
\* guest
C30_FailedCallsChangeNothing == [][FailedCallChangesNothing]_vars

\* After a guest was added, an addGuest with a duplicate contact and an
\* updateGuestStatus for an id no guest has were both thrown back
C30_Witness ==
  /\ Len(state.guests) = 1
  /\ \E i, j \in 1..Len(calls) :
       /\ calls[i].op \in {"addGuest", "addGuestTool"} /\ calls[i].out.status = "threw"
       /\ calls[i].out.error.name = "Error"
       /\ calls[j].op = "updateGuestStatus" /\ calls[j].out.status = "threw"

====
